---- MODULE Spec2Model ----
(***************************************************************************)
(* Verification model of the GCSC hull validation tools:                   *)
(*   codex_hull_lab/tools/verify_reference_fit.py  (fit analyzer, main)    *)
(*   codex_hull_lab/tools/validate_full.py         (sweep, cache,          *)
(*                                                  signature gate, main)  *)
(*   scripts/orchestration/runtime.py              (event log, session     *)
(*                                                  state)                 *)
(* Lengths are integers in hundredths of a millimetre, reference-constant  *)
(* deltas in units of 1e-6 mm.                                             *)
(***************************************************************************)
EXTENDS Integers, Sequences, FiniteSets, TLC

VARIABLES
    vpc,        \* verify_reference_fit.main: position in main()
    vfiles,     \* the three mesh files main() works on: hull, frame, plug
    vlocked,    \* reference_constants_locked as computed by main()
    vreport,    \* the report file at --output-json (NoReport until written)
    vwrote,     \* TRUE once this run has written vreport
    vexit,      \* process exit status (Running until the process ends)
    \* ---- validate_full.py: the project directory shared by all runs
    profile,    \* sweep profile: number of presets and of perturbations
    config,     \* version of the generation inputs: override values, presets
    cache,      \* cached_stls: file per cache key (frame, plug, hull per scenario)
    reports,    \* reference_fit_sweep_<slug>.json per scenario
    wcount,     \* per cache key: exports that opened the file for writing so far
    deviations, \* environment outcomes so far that differ from the nominal one
    \* ---- validate_full.py: the validate_full processes
    run,        \* per process: position, locals of main() and robustness_sweep()
    \* ---- validate_full.py: the golden signature gate
    sigfile,    \* the golden signature file at --signature-file
    sigrun,     \* the gate's call: its arguments and the result it returned
    \* ---- validate_full.py: the kinematic validator and its angle sampler
    kinrun,     \* dynamic_kinematic_validation: its call and the result
    angrun,     \* sampled_angles: two calls and the lists they returned
    \* ---- validate_full.py: the manufacturability prober
    manrun,     \* manufacturability_validation: its call and the result
    \* ---- verify_reference_fit.py: the reference constant resolver
    resrun,     \* parse_reference_constants: its locals and what it returned
    \* ---- verify_reference_fit.py: the constant lock
    lockrun,    \* evaluate_reference_constant_lock and the analysis after it
    \* ---- validate_full.py: main(), its configuration and command suite
    suiterun,   \* main(): its arguments, its locals and its exit status
    \* ---- verify_reference_fit.py: the geometry inputs of main()
    geomrun,    \* ensure_geometry_inputs: its arguments, the files, the exports
    \* ---- scripts/orchestration/runtime.py: the runtime directory
    orch        \* lock, sequence and event files, session states, processes

vvars == <<vpc, vfiles, vlocked, vreport, vwrote, vexit>>
svars == <<profile, config, cache, reports, wcount, deviations, run>>
gvars == <<sigfile, sigrun>>
xvars == <<kinrun, angrun, manrun, resrun, lockrun>>
yvars == <<suiterun, geomrun, orch>>
vars == <<vpc, vfiles, vlocked, vreport, vwrote, vexit,
          profile, config, cache, reports, wcount, deviations, run,
          sigfile, sigrun, kinrun, angrun, manrun, resrun, lockrun,
          suiterun, geomrun, orch>>

Running == 0 - 1                     \* vexit while the process has not ended
NoReport == [present |-> FALSE]      \* no file at the report path

RECURSIVE SeqMax(_), SeqMin(_)
SeqMax(s) == IF Len(s) = 1 THEN s[1]
             ELSE IF s[1] >= SeqMax(Tail(s)) THEN s[1] ELSE SeqMax(Tail(s))
SeqMin(s) == IF Len(s) = 1 THEN s[1]
             ELSE IF s[1] <= SeqMin(Tail(s)) THEN s[1] ELSE SeqMin(Tail(s))
Abs(x) == IF x < 0 THEN -x ELSE x

(***************************************************************************)
(* verify_reference_fit.py: VerificationThresholds defaults                *)
(***************************************************************************)
axis_tolerance_mm == 25
slot_depth_target_mm == 700
slot_depth_tolerance_mm == 5
corridor_radial_clearance_min_mm == 8
frame_penetration_max_mm == 1
frame_min_gap_mm == 8
floor_clearance_min_mm == 200
lock_epsilon == 1

(***************************************************************************)
(* Inputs of one analysis: what the geometry queries return.               *)
(***************************************************************************)
\* per slot: planar axis error of the arg-max seat point, and corridor
\* clearance (minimum corridor free radius minus ball radius)
SlotMeasurements ==
    {[axis_error |-> 25, corridor_clearance |-> 8],
     [axis_error |-> 26, corridor_clearance |-> 8],
     [axis_error |-> 25, corridor_clearance |-> 7]}
\* per frame placement: signed distances of the frame samples against the
\* hull (positive = inside hull material)
FrameSampleSets == {<<-7>>, <<-8, 1>>, <<-8, 2>>}
\* per frame placement: floor clearances of the contact points whose
\* downward ray hit the hull; the minimum is <<>> for None, else <<value>>
FloorClearanceSets == {<<>>, <<200>>, <<200, 199>>}
FrameMeasurements ==
    [sample_signed : FrameSampleSets, floor_clearances : FloorClearanceSets]
SlotDepths == {694, 705}
\* offsets of a resolved constant from its canonical value, in 1e-6 mm
ConstantDeltas == {-2, -1, 0, 1}

MeasurementInputs ==
    [watertight : BOOLEAN,
     slot_depth : SlotDepths,
     slots : [1..4 -> SlotMeasurements],
     frames : [1..2 -> FrameMeasurements]]

(***************************************************************************)
(* evaluate_reference_constant_lock                                        *)
(***************************************************************************)
\* canonical values in 1e-6 mm, for two of the canonical constants
CANONICAL_REFERENCE_CONSTANTS ==
    [REFERENCE_PIVOT_Y |-> 33000000, REFERENCE_MODEL_RIM_Z |-> 0]

\* a float: a number, or NaN (the resolver yields NaN for 1e999 - 1e999)
Float(v) == [nan |-> FALSE, v |-> v]
NaN == [nan |-> TRUE, v |-> 0]

\* the maps parse_reference_constants can return for the canonical names
ResolvedConstants ==
    {[name \in DOMAIN CANONICAL_REFERENCE_CONSTANTS |->
          IF d[name] = NaN THEN NaN
          ELSE Float(CANONICAL_REFERENCE_CONSTANTS[name] + d[name].v)] :
        d \in [DOMAIN CANONICAL_REFERENCE_CONSTANTS ->
                 {NaN} \cup {Float(x) : x \in ConstantDeltas}]}

\* observed - expected on floats
float_delta(observed, expected) ==
    IF observed.nan THEN NaN ELSE Float(observed.v - expected)

\* abs(delta) > 1e-6 on floats: every comparison with NaN is false
abs_delta_exceeds(delta, epsilon) == ~delta.nan /\ Abs(delta.v) > epsilon

evaluate_reference_constant_lock(constants) ==
    [locked |-> ~\E name \in DOMAIN CANONICAL_REFERENCE_CONSTANTS :
                    abs_delta_exceeds(
                        float_delta(constants[name], CANONICAL_REFERENCE_CONSTANTS[name]),
                        lock_epsilon),
     deltas |-> [name \in DOMAIN CANONICAL_REFERENCE_CONSTANTS |->
                    [expected |-> CANONICAL_REFERENCE_CONSTANTS[name],
                     observed |-> constants[name],
                     delta_mm |-> float_delta(constants[name],
                                              CANONICAL_REFERENCE_CONSTANTS[name])]]]

(***************************************************************************)
(* measure_slot_geometry: the two booleans of one slot check               *)
(***************************************************************************)
measure_slot_geometry(m) ==
    [axis_error_mm |-> m.axis_error,
     corridor_min_radial_clearance_mm |-> m.corridor_clearance,
     axis_pass |-> m.axis_error <= axis_tolerance_mm,
     corridor_pass |-> m.corridor_clearance >= corridor_radial_clearance_min_mm]

(***************************************************************************)
(* analyze_frame_fit: one placement                                        *)
(***************************************************************************)
IsOverTolerance(s) == s > frame_penetration_max_mm
IsNonPenetrating(s) == s <= 0
penetrating_points_over_tolerance(samples) ==
    Cardinality({i \in 1..Len(samples) : IsOverTolerance(samples[i])})
NonPenetrating(samples) == SelectSeq(samples, IsNonPenetrating)
Negated(samples) == [i \in 1..Len(samples) |-> -samples[i]]

frame_min_gap(samples) ==
    IF NonPenetrating(samples) # <<>>
    THEN SeqMin(Negated(NonPenetrating(samples)))
    ELSE 0

frame_interference_pass(samples) ==
    /\ penetrating_points_over_tolerance(samples) = 0
    /\ frame_min_gap(samples) >= frame_min_gap_mm

frame_floor_clearance_min(clearances) ==
    IF clearances # <<>> THEN <<SeqMin(clearances)>> ELSE <<>>

\* faulty variant: a placement without any measured clearance passes
frame_floor_clearance_pass_unmeasured(clearances) ==
    \/ frame_floor_clearance_min(clearances) = <<>>
    \/ frame_floor_clearance_min(clearances)[1] >= floor_clearance_min_mm

frame_floor_clearance_pass(clearances) ==
    /\ frame_floor_clearance_min(clearances) # <<>>
    /\ frame_floor_clearance_min(clearances)[1] >= floor_clearance_min_mm

analyze_frame_fit(m) ==
    [max_penetration_mm |->
        IF SeqMax(m.sample_signed) > 0 THEN SeqMax(m.sample_signed) ELSE 0,
     penetrating_points_over_tolerance |->
        penetrating_points_over_tolerance(m.sample_signed),
     min_gap_mm |-> frame_min_gap(m.sample_signed),
     floor_clearance_min_mm |-> frame_floor_clearance_min(m.floor_clearances),
     floor_clearance_samples_mm |-> m.floor_clearances,
     interference_pass |-> frame_interference_pass(m.sample_signed),
     floor_clearance_pass |-> frame_floor_clearance_pass(m.floor_clearances)]

(***************************************************************************)
(* analyze_reference_fit: gates and overall pass                           *)
(***************************************************************************)
slot_results(inp) == [i \in 1..4 |-> measure_slot_geometry(inp.slots[i])]
frame_results(inp) == [i \in 1..2 |-> analyze_frame_fit(inp.frames[i])]

GateNames ==
    {"hull_mesh_watertight", "reference_constants_locked",
     "slot_axis_positions", "slot_depth", "slot_insertion_corridor",
     "frame_interference", "frame_floor_clearance"}

fit_gates(inp, locked) ==
    [hull_mesh_watertight |-> inp.watertight,
     reference_constants_locked |-> locked,
     slot_axis_positions |-> \A i \in 1..4 : slot_results(inp)[i].axis_pass,
     slot_depth |->
        Abs(inp.slot_depth - slot_depth_target_mm) <= slot_depth_tolerance_mm,
     slot_insertion_corridor |->
        \A i \in 1..4 : slot_results(inp)[i].corridor_pass,
     frame_interference |->
        \A i \in 1..2 : frame_results(inp)[i].interference_pass,
     frame_floor_clearance |->
        \A i \in 1..2 : frame_results(inp)[i].floor_clearance_pass]

\* faulty variant: the overall pass forgets the slot_depth gate
fit_pass_without_slot_depth(gates) ==
    \A g \in DOMAIN gates \ {"slot_depth"} : gates[g]

fit_pass(gates) == \A g \in DOMAIN gates : gates[g]

analyze_reference_fit(inp, locked) ==
    [present |-> TRUE,
     slot_checks |-> slot_results(inp),
     frame_checks |-> frame_results(inp),
     gates |-> fit_gates(inp, locked),
     pass |-> fit_pass(fit_gates(inp, locked))]

(***************************************************************************)
(* run_openscad_export (verify_reference_fit.py): the renderer's outcome   *)
(* is its return code and the output file it leaves; a run that exceeds    *)
(* the 900 s timeout raises TimeoutExpired.                                *)
(***************************************************************************)
FileStates == {"absent", "empty", "mesh"}
RenderOutcomes ==
    {[rc |-> 0, out |-> "mesh", timed_out |-> FALSE],
     [rc |-> 0, out |-> "empty", timed_out |-> FALSE],
     [rc |-> 0, out |-> "absent", timed_out |-> FALSE],
     [rc |-> 1, out |-> "absent", timed_out |-> FALSE],
     [rc |-> 1, out |-> "empty", timed_out |-> FALSE],
     [rc |-> 1, out |-> "absent", timed_out |-> TRUE]}

\* TRUE when the export returns normally, FALSE when it raises
verify_run_openscad_export(r) ==
    ~r.timed_out /\ ~(r.rc # 0 \/ r.out = "absent")

MeshNames == {"hull", "frame", "plug"}

(***************************************************************************)
(* verify_reference_fit.main                                               *)
(***************************************************************************)
PythonCrash == 1    \* exit status of an uncaught exception
TimeoutReturncode == 124    \* run_command: returncode of a timed-out command

verify_exit_status(report) == IF report.pass THEN 0 ELSE 1

\* import rtree
verify_main_dependency ==
    /\ vpc = "start"
    /\ \E rtree_present \in BOOLEAN :
          IF rtree_present
          THEN /\ vpc' = "constants"
               /\ vexit' = vexit
          ELSE /\ vpc' = "done"
               /\ vexit' = 2
    /\ UNCHANGED <<vfiles, vlocked, vreport, vwrote>>
    /\ UNCHANGED <<svars, gvars, xvars, yvars>>

\* parse_reference_constants, evaluate_reference_constant_lock
verify_main_constants ==
    /\ vpc = "constants"
    /\ \/ /\ vpc' = "done"           \* FileNotFoundError / ValueError
          /\ vexit' = PythonCrash
          /\ vlocked' = vlocked
       \/ \E constants \in ResolvedConstants :
             /\ vlocked' = evaluate_reference_constant_lock(constants).locked
             /\ vpc' = "geometry"
             /\ vexit' = vexit
    /\ UNCHANGED <<vfiles, vreport, vwrote>>
    /\ UNCHANGED <<svars, gvars, xvars, yvars>>

\* ensure_geometry_inputs with the default command line (no explicit STLs,
\* no --reuse-exported-stls): export hull, frame and plug in this order.
verify_main_geometry ==
    /\ vpc = "geometry"
    /\ \/ /\ vpc' = "done"           \* ensure_export_inputs / resolve_openscad raise
          /\ vexit' = PythonCrash
          /\ vfiles' = vfiles
       \/ \E r \in [MeshNames -> RenderOutcomes] :
             LET wrote(n) ==   \* the export of n was started
                    \/ n = "hull"
                    \/ n = "frame" /\ verify_run_openscad_export(r["hull"])
                    \/ /\ n = "plug"
                       /\ verify_run_openscad_export(r["hull"])
                       /\ verify_run_openscad_export(r["frame"])
                 ok == \A n \in MeshNames : verify_run_openscad_export(r[n])
             IN /\ vfiles' = [n \in MeshNames |->
                                IF wrote(n) /\ r[n].out # "absent"
                                THEN r[n].out ELSE vfiles[n]]
                /\ vpc' = IF ok THEN "load" ELSE "done"
                /\ vexit' = IF ok THEN vexit ELSE PythonCrash
    /\ UNCHANGED <<vlocked, vreport, vwrote>>
    /\ UNCHANGED <<svars, gvars, xvars, yvars>>

\* load_mesh x3, analyze_reference_fit, write report, return
verify_main_analyze ==
    /\ vpc = "load"
    /\ IF \E n \in MeshNames : vfiles[n] # "mesh"
       THEN /\ vpc' = "done"         \* load_mesh / analysis raises
            /\ vexit' = PythonCrash
            /\ UNCHANGED <<vreport, vwrote>>
       ELSE \E inp \in MeasurementInputs :
               LET report == analyze_reference_fit(inp, vlocked)
               IN /\ vreport' = report
                  /\ vwrote' = TRUE
                  /\ vexit' = verify_exit_status(report)
                  /\ vpc' = "done"
    /\ UNCHANGED <<vfiles, vlocked>>
    /\ UNCHANGED <<svars, gvars, xvars, yvars>>

(***************************************************************************)
(* validate_full.py: project state                                         *)
(***************************************************************************)
MaxPresets == 2         \* presets in the sweep profile
MaxPerturbations == 1   \* perturbations in the sweep profile
MaxDeviations == 1      \* non-nominal environment outcomes in one behaviour
MaxRuns == 2            \* successive runs of one validate_full process slot

\* cache keys: cached_stls/frame_reference.stl, cached_stls/slot_plug_reference.stl
\* and cached_stls/hulls/<preset>__<perturbation or baseline>.stl (q = 0: baseline)
StaticFrame == <<0, 1>>
StaticPlug == <<0, 2>>
HullKeys == (1..MaxPresets) \X (0..MaxPerturbations)
CacheKeys == {StaticFrame, StaticPlug} \cup HullKeys

\* a file: absent, being written by a live renderer, zero bytes, a truncated
\* leftover, or a complete mesh; gen: the override version it was rendered from
AbsentFile == [state |-> "absent", gen |-> 0]
Exists(f) == f.state # "absent"

\* non-nominal outcomes are injected into the first process only (processes
\* are interchangeable), and at most MaxDeviations of them in one behaviour
Dev(r, n) == n = 0 \/ (r = 1 /\ deviations + n <= MaxDeviations)

\* a fit report as the sweep sees it: its gates and overall pass, and (history)
\* the process and run that wrote it
VerifyReport(failing, r, n) ==
    [present |-> TRUE,
     gates |-> [g \in GateNames |-> g \notin failing],
     pass |-> fit_pass([g \in GateNames |-> g \notin failing]),
     by |-> <<r, n>>]

EmptyGates == [g \in {} |-> FALSE]

(***************************************************************************)
(* run_command, run_openscad_export, cached_openscad_export: their records *)
(***************************************************************************)
run_command(name, returncode, timed_out) ==
    [name |-> name,
     returncode |-> IF timed_out THEN TimeoutReturncode ELSE returncode,
     timed_out |-> timed_out,
     pass |-> (IF timed_out THEN TimeoutReturncode ELSE returncode) = 0,
     cache_hit |-> FALSE]

run_openscad_export(returncode, output_exists) ==
    [name |-> "openscad_export",
     returncode |-> returncode,
     timed_out |-> FALSE,
     pass |-> returncode = 0 /\ output_exists,
     cache_hit |-> FALSE]

cached_openscad_export_hit ==
    [name |-> "openscad_export",
     returncode |-> 0,
     timed_out |-> FALSE,
     pass |-> TRUE,
     cache_hit |-> TRUE]

(***************************************************************************)
(* reference_fit_scenario_summary                                          *)
(***************************************************************************)
gate_get(gates, g) == g \in DOMAIN gates /\ gates[g]

required_gate_pass(gates) ==
    /\ gate_get(gates, "slot_insertion_corridor")
    /\ gate_get(gates, "frame_interference")
    /\ gate_get(gates, "frame_floor_clearance")

reference_fit_scenario_summary(name, report, command_record) ==
    LET gates == IF report.present THEN report.gates ELSE EmptyGates
    IN [name |-> name,
        command |-> command_record,
        report_present |-> report.present,
        report_pass |-> IF report.present THEN report.pass ELSE FALSE,
        report_by |-> IF report.present THEN report.by ELSE <<0, 0>>,
        gates |-> gates,
        required_gate_pass |-> required_gate_pass(gates)]

\* the scenario appended without a fit run (skipped perturbation, failed export)
scenario_without_report(name, command_record) ==
    [name |-> name,
     command |-> command_record,
     report_present |-> FALSE,
     report_pass |-> FALSE,
     report_by |-> <<0, 0>>,
     gates |-> EmptyGates,
     required_gate_pass |-> FALSE]

sweep_perturbation_skipped ==
    [name |-> "sweep_perturbation_skipped",
     returncode |-> 0,
     timed_out |-> FALSE,
     pass |-> FALSE,
     cache_hit |-> FALSE]

(***************************************************************************)
(* the validate_full process                                               *)
(***************************************************************************)
NewRun(n) ==
    [pc |-> "start",
     nrun |-> n,                 \* which run of this process slot
     overrides |-> 0,            \* version of the generation inputs read
     openscad |-> FALSE,         \* openscad_bin is not None
     suite_pass |-> FALSE,       \* command_suite gate
     ref_frame |-> FALSE,        \* baseline_reference_report.inputs.frame_stl exists
     ref_plug |-> FALSE,         \* baseline_reference_report.inputs.slot_plug_stl exists
     phase |-> "none",           \* which export / fit run is in progress
     pi |-> 0,                   \* index of the preset in sweep_presets
     qi |-> 0,                   \* index of the perturbation (0: baseline)
     frame_pass |-> FALSE,       \* frame_export["pass"]
     base_frame |-> "none",      \* base_frame_stl: none, cache, baseline_inputs
     base_plug |-> "none",       \* base_slot_plug_stl
     errors |-> <<>>,
     scenarios |-> <<>>,
     fits |-> <<>>,              \* history: the arguments of each fit run started
     calls |-> [k \in {"frame", "plug"} |-> 0],  \* history: export invocations
     exports |-> <<>>,           \* history: the export records returned
     sweep_pass |-> FALSE,
     full_pass |-> FALSE,        \* report["pass"] of the full report
     wrote |-> FALSE,            \* the full report was written by this run
     exit |-> Running]

SweepInit(procs) ==
    \* the smallest and the largest profile in each direction
    /\ profile \in [np : {1, MaxPresets}, nq : {0, MaxPerturbations}]
    /\ config = 1
    /\ cache = [k \in CacheKeys |-> AbsentFile]
    /\ reports = [k \in HullKeys |-> NoReport]
    /\ wcount = [k \in CacheKeys |-> 0]
    /\ deviations = 0
    /\ run = [r \in procs |-> NewRun(1)]

Crash(rr) == [rr EXCEPT !.pc = "done", !.exit = PythonCrash]

CurKey(rr) ==
    CASE rr.phase = "frame" -> StaticFrame
      [] rr.phase = "plug" -> StaticPlug
      [] OTHER -> <<rr.pi, rr.qi>>

\* the override version the current export is rendered from
CurGen(rr) ==
    IF rr.phase \in {"baseline", "perturb"} THEN rr.overrides ELSE 0

\* after a scenario of preset pi was appended: next perturbation, next preset,
\* or the end of the sweep
Advance(rr) ==
    IF rr.qi < profile.nq
    THEN [rr EXCEPT !.pc = "perturb", !.qi = rr.qi + 1, !.phase = "none"]
    ELSE IF rr.pi < profile.np
         THEN [rr EXCEPT !.pc = "preset", !.pi = rr.pi + 1, !.qi = 0, !.phase = "none"]
         ELSE [rr EXCEPT !.pc = "finish", !.phase = "none"]

\* a preset whose file is missing is left out with all its perturbations
SkipPreset(rr) ==
    IF rr.pi < profile.np
    THEN [rr EXCEPT !.pc = "preset", !.pi = rr.pi + 1, !.qi = 0, !.phase = "none"]
    ELSE [rr EXCEPT !.pc = "finish", !.phase = "none"]

\* robustness_sweep lines 711-724: fall back to the baseline report's inputs,
\* then enter the preset loop
StaticDone(rr) ==
    LET fallback == rr.base_frame = "none" \/ rr.base_plug = "none"
        bf == IF fallback /\ rr.ref_frame THEN "baseline_inputs" ELSE rr.base_frame
        bp == IF fallback /\ rr.ref_plug THEN "baseline_inputs" ELSE rr.base_plug
    IN [rr EXCEPT !.base_frame = bf, !.base_plug = bp,
                  !.pc = "preset", !.pi = 1, !.qi = 0, !.phase = "none"]

(***************************************************************************)
(* validate_full.main, first part: profile, OpenSCAD, command suite        *)
(***************************************************************************)
\* resolve_sweep_profile (a ValueError returns 2), resolve_openscad
main_start(r) ==
    /\ run[r].pc = "start"
    /\ \/ /\ Dev(r, 1)                     \* sweep profile error
          /\ deviations' = deviations + 1
          /\ run' = [run EXCEPT ![r] = [@ EXCEPT !.pc = "done", !.exit = 2]]
       \/ \E found \in BOOLEAN :        \* resolve_openscad found a binary
             /\ Dev(r, IF found THEN 0 ELSE 1)
             /\ deviations' = deviations + (IF found THEN 0 ELSE 1)
             /\ run' = [run EXCEPT ![r] =
                          [@ EXCEPT !.pc = "suite",
                                    !.openscad = found,
                                    !.overrides = config]]
    /\ UNCHANGED <<profile, config, cache, reports, wcount>>
    /\ UNCHANGED <<vvars, gvars, xvars, yvars>>

\* the command suite and load_json(reference_fit_report.json)
main_command_suite(r) ==
    /\ run[r].pc = "suite"
    /\ \E sp \in BOOLEAN, rf \in BOOLEAN :
          LET rp == rf
              d == IF sp /\ rf THEN 0 ELSE 1
          IN /\ Dev(r, d)
             /\ deviations' = deviations + d
             /\ run' = [run EXCEPT ![r] =
                          [@ EXCEPT !.pc = "sweep", !.suite_pass = sp,
                                    !.ref_frame = rf, !.ref_plug = rp]]
    /\ UNCHANGED <<profile, config, cache, reports, wcount>>
    /\ UNCHANGED <<vvars, gvars, xvars, yvars>>

(***************************************************************************)
(* robustness_sweep                                                        *)
(***************************************************************************)
\* lines 645-709 up to the first cached export
sweep_begin(r) ==
    /\ run[r].pc = "sweep"
    /\ IF run[r].openscad
       THEN \/ /\ deviations' = deviations      \* reference sources present
               /\ run' = [run EXCEPT ![r] =
                            [@ EXCEPT !.pc = "check", !.phase = "frame"]]
            \/ /\ Dev(r, 1)                        \* reference source file(s) missing
               /\ deviations' = deviations + 1
               /\ run' = [run EXCEPT ![r] =
                            StaticDone([@ EXCEPT !.errors =
                                Append(@, "sweep_cache_source_missing")])]
       ELSE /\ deviations' = deviations
            /\ run' = [run EXCEPT ![r] =
                         StaticDone([@ EXCEPT !.errors =
                             Append(@, "openscad_unavailable")])]
    /\ UNCHANGED <<profile, config, cache, reports, wcount>>
    /\ UNCHANGED <<vvars, gvars, xvars, yvars>>

\* faulty variant: a hull whose export failed leaves no scenario behind
UseExport_dropping_failed(rr, record) ==
    CASE rr.phase = "frame" ->
            [rr EXCEPT !.frame_pass = record.pass, !.phase = "plug", !.pc = "check"]
      [] rr.phase = "plug" ->
            IF rr.frame_pass /\ record.pass
            THEN StaticDone([rr EXCEPT !.base_frame = "cache", !.base_plug = "cache"])
            ELSE StaticDone([rr EXCEPT !.errors =
                                Append(@, "static_export_failed")])
      [] OTHER ->
            IF record.pass THEN [rr EXCEPT !.pc = "fit"] ELSE Advance(rr)

\* what robustness_sweep does with the record of the export just made
UseExport(rr, record) ==
    CASE rr.phase = "frame" ->
            [rr EXCEPT !.frame_pass = record.pass, !.phase = "plug", !.pc = "check"]
      [] rr.phase = "plug" ->
            IF rr.frame_pass /\ record.pass
            THEN StaticDone([rr EXCEPT !.base_frame = "cache", !.base_plug = "cache"])
            ELSE StaticDone([rr EXCEPT !.errors =
                                Append(@, "static_export_failed")])
      [] OTHER ->      \* hull of the baseline or of a perturbation
            IF record.pass
            THEN [rr EXCEPT !.pc = "fit"]
            ELSE Advance([rr EXCEPT !.scenarios =
                     Append(@, scenario_without_report(<<rr.pi, rr.qi>>, record))])

\* the record is returned to robustness_sweep; file: the output file's state
\* at that moment (history)
AfterExport(rr, record, file) ==
    UseExport([rr EXCEPT !.exports =
                  Append(@, [key |-> CurKey(rr), pass |-> record.pass,
                             returncode |-> record.returncode,
                             cache_hit |-> record.cache_hit,
                             state |-> file])],
              record)

\* cached_openscad_export: output_file.exists() decides
cached_openscad_export_check(r) ==
    /\ run[r].pc = "check"
    /\ LET key == CurKey(run[r])
       IN IF Exists(cache[key])
          THEN run' = [run EXCEPT ![r] =
                         AfterExport(@, cached_openscad_export_hit, cache[key].state)]
          ELSE run' = [run EXCEPT ![r] =
                         [@ EXCEPT !.pc = "rendering",
                                   !.calls = IF run[r].phase \in {"frame", "plug"}
                                             THEN [@ EXCEPT ![run[r].phase] = @ + 1]
                                             ELSE @]]
    /\ UNCHANGED <<profile, config, cache, reports, wcount, deviations>>
    /\ UNCHANGED <<vvars, gvars, xvars, yvars>>

\* the renderer opens its output file
export_write(r) ==
    /\ run[r].pc = "rendering"
    /\ cache' = [cache EXCEPT ![CurKey(run[r])] =
                   [state |-> "writing", gen |-> CurGen(run[r])]]
    /\ wcount' = [wcount EXCEPT ![CurKey(run[r])] = @ + 1]
    /\ run' = [run EXCEPT ![r] = [@ EXCEPT !.pc = "writing"]]
    /\ UNCHANGED <<profile, config, reports, deviations>>
    /\ UNCHANGED <<vvars, gvars, xvars, yvars>>

\* the renderer ends after writing: run_openscad_export returns its record
export_finish(r) ==
    /\ run[r].pc = "writing"
    /\ LET key == CurKey(run[r])
           gen == CurGen(run[r])
       IN \/ /\ deviations' = deviations       \* complete mesh, exit 0
             /\ cache' = [cache EXCEPT ![key] = [state |-> "mesh", gen |-> gen]]
             /\ run' = [run EXCEPT ![r] =
                          AfterExport(@, run_openscad_export(0, TRUE), "mesh")]
          \/ /\ Dev(r, 1)                         \* zero-byte output, exit 0
             /\ deviations' = deviations + 1
             /\ cache' = [cache EXCEPT ![key] = [state |-> "empty", gen |-> gen]]
             /\ run' = [run EXCEPT ![r] =
                          AfterExport(@, run_openscad_export(0, TRUE), "empty")]
          \/ /\ Dev(r, 1)                         \* truncated output, exit 1
             /\ deviations' = deviations + 1
             /\ cache' = [cache EXCEPT ![key] = [state |-> "partial", gen |-> gen]]
             /\ run' = [run EXCEPT ![r] =
                          AfterExport(@, run_openscad_export(1, TRUE), "partial")]
          \/ /\ Dev(r, 1)                         \* killed at the timeout: TimeoutExpired
             /\ deviations' = deviations + 1
             /\ cache' = [cache EXCEPT ![key] = [state |-> "partial", gen |-> gen]]
             /\ run' = [run EXCEPT ![r] = Crash(@)]
    /\ UNCHANGED <<profile, config, reports, wcount>>
    /\ UNCHANGED <<vvars, gvars, xvars, yvars>>

\* the renderer ends without having opened its output file
export_fail(r) ==
    /\ run[r].pc = "rendering"
    /\ Dev(r, 1)
    /\ deviations' = deviations + 1
    /\ LET file == cache[CurKey(run[r])]
       IN \E rc \in {0, 1} :
             run' = [run EXCEPT ![r] =
                       AfterExport(@, run_openscad_export(rc, Exists(file)), file.state)]
    /\ UNCHANGED <<profile, config, cache, reports, wcount>>
    /\ UNCHANGED <<vvars, gvars, xvars, yvars>>

\* per preset: lines 724-735, the preset file check and the choice of how the
\* baseline is run
sweep_preset(r) ==
    /\ run[r].pc = "preset"
    /\ \/ /\ Dev(r, 1)                     \* base_preset.exists() is false
          /\ deviations' = deviations + 1
          /\ run' = [run EXCEPT ![r] =
                       SkipPreset([@ EXCEPT !.errors = Append(@, "preset_missing")])]
       \/ /\ deviations' = deviations
          /\ run' = [run EXCEPT ![r] =
                IF /\ run[r].openscad
                   /\ run[r].base_frame # "none"
                   /\ run[r].base_plug # "none"
                THEN [@ EXCEPT !.phase = "baseline", !.pc = "check"]
                ELSE [@ EXCEPT !.phase = "baseline_preset", !.pc = "fit"]]
    /\ UNCHANGED <<profile, config, cache, reports, wcount>>
    /\ UNCHANGED <<vvars, gvars, xvars, yvars>>

\* per perturbation: lines 789-823, skip or write the wrapper and export
sweep_perturbation(r) ==
    /\ run[r].pc = "perturb"
    /\ run' = [run EXCEPT ![r] =
          IF \/ ~run[r].openscad
             \/ run[r].base_frame = "none"
             \/ run[r].base_plug = "none"
          THEN Advance([@ EXCEPT !.scenarios =
                   Append(@, scenario_without_report(<<run[r].pi, run[r].qi>>,
                                                     sweep_perturbation_skipped))])
          ELSE [@ EXCEPT !.phase = "perturb", !.pc = "check"]]
    /\ UNCHANGED <<profile, config, cache, reports, wcount, deviations>>
    /\ UNCHANGED <<vvars, gvars, xvars, yvars>>

\* how a verify command ends without writing a report: an uncaught exception,
\* or run_command's timeout (returncode 124, timed_out)
CommandFailures ==
    {[rc |-> PythonCrash, timed_out |-> FALSE],
     [rc |-> TimeoutReturncode, timed_out |-> TRUE]}

\* the gates a deviating fit report may fail (one at a time)
FailingGates ==
    {"frame_interference", "hull_mesh_watertight"}

\* the static mesh a fit run is given is readable
StaticReadable(base, key) ==
    \/ base = "baseline_inputs"
    \/ base = "cache" /\ cache[key].state = "mesh"

\* faulty variant: every scenario gets frame and slot-plug files of its own
fit_inputs_per_scenario(rr) == [frame |-> "scenario", plug |-> "scenario"]

\* the frame and slot-plug files robustness_sweep passes to a fit run with
\* explicit STLs
fit_inputs(rr) == [frame |-> rr.base_frame, plug |-> rr.base_plug]

\* what robustness_sweep does with the result of run_reference_fit_command:
\* the command record and load_json(output_json)
AfterFit(rr, record, report, given) ==
    Advance([rr EXCEPT
        !.scenarios = Append(@, reference_fit_scenario_summary(
                                   <<rr.pi, rr.qi>>, report, record)),
        !.fits = Append(@, given)])

\* run_reference_fit_command with explicit STLs: the verify subprocess reads
\* the three meshes and, when it gets that far, writes its report
run_reference_fit_command(r) ==
    /\ run[r].pc = "fit"
    /\ run[r].phase \in {"baseline", "perturb"}
    /\ LET rr == run[r]
           slug == <<rr.pi, rr.qi>>
           name == "verify_reference_fit:explicit_stls"
           given == [slug |-> slug, mode |-> "explicit_stls",
                     frame |-> fit_inputs(rr).frame, plug |-> fit_inputs(rr).plug,
                     hull_gen |-> cache[slug].gen, want_gen |-> CurGen(rr),
                     hull_state |-> cache[slug].state]
           readable == /\ cache[slug].state = "mesh"
                       /\ StaticReadable(fit_inputs(rr).frame, StaticFrame)
                       /\ StaticReadable(fit_inputs(rr).plug, StaticPlug)
       IN IF ~readable
          THEN /\ reports' = reports            \* load_mesh raises
               /\ deviations' = deviations
               /\ run' = [run EXCEPT ![r] =
                     AfterFit(@, run_command(name, PythonCrash, FALSE),
                              reports[slug], given)]
          ELSE \/ /\ deviations' = deviations   \* report with every gate true
                  /\ reports' = [reports EXCEPT ![slug] = VerifyReport({}, r, rr.nrun)]
                  /\ run' = [run EXCEPT ![r] =
                        AfterFit(@, run_command(name,
                                     verify_exit_status(VerifyReport({}, r, rr.nrun)), FALSE),
                                 VerifyReport({}, r, rr.nrun), given)]
               \/ \E g \in FailingGates :       \* report with one gate false
                     /\ Dev(r, 1)
                     /\ deviations' = deviations + 1
                     /\ reports' = [reports EXCEPT ![slug] = VerifyReport({g}, r, rr.nrun)]
                     /\ run' = [run EXCEPT ![r] =
                           AfterFit(@, run_command(name,
                                        verify_exit_status(VerifyReport({g}, r, rr.nrun)), FALSE),
                                    VerifyReport({g}, r, rr.nrun), given)]
               \/ \E failure \in CommandFailures :           \* no report written
                     /\ Dev(r, 1)
                     /\ deviations' = deviations + 1
                     /\ reports' = reports
                     /\ run' = [run EXCEPT ![r] =
                           AfterFit(@, run_command(name, failure.rc, failure.timed_out),
                                    reports[slug], given)]
    /\ UNCHANGED <<profile, config, cache, wcount>>
    /\ UNCHANGED <<vvars, gvars, xvars, yvars>>

\* run_reference_fit_command with preset=...: the verify subprocess exports
\* hull, frame and plug itself (no --reuse-exported-stls) before it analyzes
run_reference_fit_command_preset(r) ==
    /\ run[r].pc = "fit"
    /\ run[r].phase = "baseline_preset"
    /\ LET rr == run[r]
           slug == <<rr.pi, rr.qi>>
           name == "verify_reference_fit:preset"
           given == [slug |-> slug, mode |-> "preset",
                     frame |-> "none", plug |-> "none",
                     hull_gen |-> 0, want_gen |-> 0, hull_state |-> "mesh"]
       IN IF ~rr.openscad
          THEN /\ reports' = reports            \* resolve_openscad raises in verify
               /\ deviations' = deviations
               /\ run' = [run EXCEPT ![r] =
                     AfterFit(rr, run_command(name, PythonCrash, FALSE),
                              reports[slug], given)]
          ELSE \/ /\ deviations' = deviations
                  /\ reports' = [reports EXCEPT ![slug] = VerifyReport({}, r, rr.nrun)]
                  /\ run' = [run EXCEPT ![r] =
                        AfterFit(rr, run_command(name,
                                     verify_exit_status(VerifyReport({}, r, rr.nrun)), FALSE),
                                 VerifyReport({}, r, rr.nrun), given)]
               \/ \E g \in FailingGates :
                     /\ Dev(r, 1)
                     /\ deviations' = deviations + 1
                     /\ reports' = [reports EXCEPT ![slug] = VerifyReport({g}, r, rr.nrun)]
                     /\ run' = [run EXCEPT ![r] =
                           AfterFit(rr, run_command(name,
                                        verify_exit_status(VerifyReport({g}, r, rr.nrun)), FALSE),
                                    VerifyReport({g}, r, rr.nrun), given)]
               \/ \E failure \in CommandFailures :
                     /\ Dev(r, 1)
                     /\ deviations' = deviations + 1
                     /\ reports' = reports
                     /\ run' = [run EXCEPT ![r] =
                           AfterFit(rr, run_command(name, failure.rc, failure.timed_out),
                                    reports[slug], given)]
    /\ UNCHANGED <<profile, config, cache, wcount>>
    /\ UNCHANGED <<vvars, gvars, xvars, yvars>>

\* faulty variant: the errors list is not consulted
sweep_overall_pass_ignoring_errors(scenarios, errors) ==
    /\ Len(scenarios) > 0
    /\ \A i \in 1..Len(scenarios) : scenarios[i].required_gate_pass

\* robustness_sweep line 871
sweep_overall_pass(scenarios, errors) ==
    /\ Len(scenarios) > 0
    /\ \A i \in 1..Len(scenarios) : scenarios[i].required_gate_pass
    /\ errors = <<>>

sweep_finish(r) ==
    /\ run[r].pc = "finish"
    /\ run' = [run EXCEPT ![r] =
                 [@ EXCEPT !.pc = "gates",
                           !.sweep_pass = sweep_overall_pass(run[r].scenarios,
                                                            run[r].errors)]]
    /\ UNCHANGED <<profile, config, cache, reports, wcount, deviations>>
    /\ UNCHANGED <<vvars, gvars, xvars, yvars>>

(***************************************************************************)
(* validate_full.main, last part: the other gates, the report, the status  *)
(***************************************************************************)
FullGateNames ==
    {"command_suite", "robustness_sweep", "kinematic_swing_path",
     "manufacturability", "golden_geometry_signatures"}

full_gates(suite, sweep, kinematic, manufacturability, signature) ==
    [command_suite |-> suite,
     robustness_sweep |-> sweep,
     kinematic_swing_path |-> kinematic,
     manufacturability |-> manufacturability,
     golden_geometry_signatures |-> signature]

full_pass(gates) == \A g \in DOMAIN gates : gates[g]

\* faulty variant: the exit status ignores the report
full_exit_status_always_zero(pass) == 0

full_exit_status(pass) == IF pass THEN 0 ELSE 1

main_finish(r) ==
    /\ run[r].pc = "gates"
    /\ \E kin \in BOOLEAN, man \in BOOLEAN, sig \in BOOLEAN :
          LET d == IF kin /\ man /\ sig THEN 0 ELSE 1
              gates == full_gates(run[r].suite_pass, run[r].sweep_pass, kin, man, sig)
          IN /\ Dev(r, d)
             /\ deviations' = deviations + d
             /\ run' = [run EXCEPT ![r] =
                          [@ EXCEPT !.pc = "done",
                                    !.full_pass = full_pass(gates),
                                    !.wrote = TRUE,
                                    !.exit = full_exit_status(full_pass(gates))]]
    /\ UNCHANGED <<profile, config, cache, reports, wcount>>
    /\ UNCHANGED <<vvars, gvars, xvars, yvars>>

\* the same project is validated again, with or without an edit of the
\* generation inputs (override values, preset contents) since the last run
next_run(r) ==
    /\ run[r].pc = "done"
    /\ run[r].nrun < MaxRuns
    /\ run' = [run EXCEPT ![r] = NewRun(run[r].nrun + 1)]
    /\ \/ config' = config
       \/ /\ \A o \in DOMAIN run : run[o].pc \in {"start", "done"}
          /\ config' = config + 1
    /\ UNCHANGED <<profile, cache, reports, wcount, deviations>>
    /\ UNCHANGED <<vvars, gvars, xvars, yvars>>

(***************************************************************************)
(* validate_full.py: golden signature gate.  Volumes are integers in       *)
(* tenths of a cubic millimetre, extents in hundredths of a millimetre;    *)
(* of geometry_signature's five metrics one relative-band metric and one   *)
(* absolute-band metric are kept.                                          *)
(***************************************************************************)
\* GCSC_ALLOW_SIGNATURE_DRIFT as bool_from_env sees it after strip().lower()
EnvValues == {"", "1", "yes", "0"}
bool_from_env(raw) == raw \in {"1", "true", "yes", "on"}

\* faulty variant: the environment variable is not consulted
resolve_signature_drift_override_cli_only(cli, env) ==
    [enabled |-> cli,
     source |-> IF cli THEN "cli" ELSE "none",
     cli |-> cli,
     env |-> bool_from_env(env)]

resolve_signature_drift_override(cli, env) ==
    [enabled |-> cli \/ bool_from_env(env),
     source |-> IF cli THEN "cli" ELSE IF bool_from_env(env) THEN "env" ELSE "none",
     cli |-> cli,
     env |-> bool_from_env(env)]

SigPresets == 1..MaxPresets
MetricNames == {"volume_mm3", "extent_z_mm"}
RelativeMetrics == {"volume_mm3"}
signature_relative_band_pct == 3     \* --signature-relative-band 0.03
signature_absolute_band_mm == 50     \* --signature-absolute-band-mm 0.50
relative_margin_floor == 1           \* 0.1
absolute_margin_floor == 5           \* 0.05
Max2(a, b) == IF a >= b THEN a ELSE b

\* geometry_signature of a preset's baseline hull: <<>> when the baseline
\* scenario, its report or its mesh is not available
SignatureValues ==
    {[volume_mm3 |-> 12000, extent_z_mm |-> 600],
     [volume_mm3 |-> 12360, extent_z_mm |-> 550],
     [volume_mm3 |-> 13000, extent_z_mm |-> 600],
     [volume_mm3 |-> 11000, extent_z_mm |-> 700]}
NominalSignature == [volume_mm3 |-> 12000, extent_z_mm |-> 600]
Observations == [SigPresets -> {<<>>} \cup {<<v>> : v \in SignatureValues}]

band_margin(name, value) ==
    IF name \in RelativeMetrics
    THEN Max2((Abs(value) * Max2(signature_relative_band_pct, 0)) \div 100,
              relative_margin_floor)
    ELSE Max2(Abs(signature_absolute_band_mm), absolute_margin_floor)

write_signature_baseline(observed) ==
    [valid |-> TRUE,
     presets |-> [p \in {q \in SigPresets : observed[q] # <<>>} |->
                    [m \in MetricNames |->
                       [min |-> observed[p][1][m] - band_margin(m, observed[p][1][m]),
                        max |-> observed[p][1][m] + band_margin(m, observed[p][1][m]),
                        ok |-> TRUE]]]]

\* load_json(signature_file) is not a dict
NoSignatureFile == [valid |-> FALSE, presets |-> <<>>]
\* a signature file in which one band of the first preset is not a number
HandEditedSignatureFile ==
    [valid |-> TRUE,
     presets |-> [p \in SigPresets |->
                    [m \in MetricNames |->
                       [min |-> 0, max |-> 0, ok |-> ~(p = 1 /\ m = "extent_z_mm")]]]]

\* a baseline that stores a band for the volume only (the nominal band)
PartialSignatureFile ==
    [valid |-> TRUE,
     presets |-> [p \in SigPresets |->
                    [m \in RelativeMetrics |->
                       [min |-> NominalSignature[m] - band_margin(m, NominalSignature[m]),
                        max |-> NominalSignature[m] + band_margin(m, NominalSignature[m]),
                        ok |-> TRUE]]]]

signature_missing_presets(observed, expected) ==
    {p \in SigPresets : observed[p] = <<>> \/ p \notin DOMAIN expected.presets}

\* faulty variant: the delta is always taken against the upper band edge
delta_to_nearest_band_edge_upper_only(value, lower, upper) == value - upper

delta_to_nearest_band_edge(value, lower, upper) ==
    IF value < lower THEN value - lower ELSE value - upper

\* the entry appended to drifts for one stored metric of one preset: <<>>
\* when none is appended
signature_drift_entry(preset, metric_name, observed_metrics, bounds) ==
    IF metric_name \notin DOMAIN observed_metrics
    THEN <<[preset |-> preset, metric |-> metric_name, status |-> "missing_metric"]>>
    ELSE IF ~bounds.ok
    THEN <<[preset |-> preset, metric |-> metric_name, status |-> "invalid_bounds"]>>
    ELSE IF \/ observed_metrics[metric_name] < bounds.min
            \/ observed_metrics[metric_name] > bounds.max
    THEN <<[preset |-> preset,
            metric |-> metric_name,
            observed |-> observed_metrics[metric_name],
            min |-> bounds.min,
            max |-> bounds.max,
            delta_to_nearest_band_edge |->
                delta_to_nearest_band_edge(observed_metrics[metric_name],
                                           bounds.min, bounds.max),
            status |-> "out_of_band"]>>
    ELSE <<>>

\* drifts: one entry at most per stored metric of each preset that is not
\* missing (the loop runs over the metrics of the stored baseline)
signature_drifts(observed, expected) ==
    UNION {
        {signature_drift_entry(p, m, observed[p][1], expected.presets[p][m])[1] :
            m \in {n \in DOMAIN expected.presets[p] :
                     signature_drift_entry(p, n, observed[p][1],
                                           expected.presets[p][n]) # <<>>}} :
        p \in SigPresets \ signature_missing_presets(observed, expected)}

golden_signature_validation(cli, env, observed, expected) ==
    LET override == resolve_signature_drift_override(cli, env)
        allow_drift == override.enabled
        missing_presets == signature_missing_presets(observed, expected)
        drifts == signature_drifts(observed, expected)
        raw_pass == missing_presets = {} /\ drifts = {}
    IN IF ~expected.valid
       THEN [pass |-> FALSE,
             raw_pass |-> FALSE,
             allow_drift_override |-> allow_drift,
             override_source |-> override.source,
             error |-> "Golden signature file missing or invalid JSON.",
             drifts |-> {},
             missing_presets |-> SigPresets]
       ELSE [pass |-> raw_pass \/ allow_drift,
             raw_pass |-> raw_pass,
             allow_drift_override |-> allow_drift,
             override_source |-> override.source,
             override_used |-> allow_drift /\ ~raw_pass,
             drifts |-> drifts,
             missing_presets |-> missing_presets]

SigIdle ==
    /\ sigfile = NoSignatureFile
    /\ sigrun = [pc |-> "idle"]

\* faulty variant: every run refreshes the stored bands
signature_file_after_always_written(write, observed, file) ==
    write_signature_baseline(observed)

\* faulty variant: the write keeps the stored bands of unobserved presets
signature_file_after_merged(write, observed, file) ==
    IF write
    THEN LET new == write_signature_baseline(observed)
         IN [valid |-> TRUE,
             presets |-> [p \in DOMAIN new.presets \cup DOMAIN file.presets |->
                            IF p \in DOMAIN new.presets
                            THEN new.presets[p] ELSE file.presets[p]]]
    ELSE file

\* the signature file after the write-baseline step of the gate
signature_file_after(write, observed, file) ==
    IF write THEN write_signature_baseline(observed) ELSE file

\* the signature gate of one validate_full run, with its arguments
signature_gate ==
    /\ sigrun.pc = "idle"
    /\ \E cli \in BOOLEAN, env \in EnvValues, write \in BOOLEAN,
          observed \in Observations :
          LET expected == signature_file_after(write, observed, sigfile)
          IN /\ sigfile' = expected
             /\ sigrun' = [pc |-> "done",
                           cli |-> cli,
                           env |-> env,
                           write |-> write,
                           observed |-> observed,
                           expected |-> expected,
                           result |-> golden_signature_validation(
                                         cli, env, observed, expected)]
    /\ UNCHANGED <<vvars, svars, xvars, yvars>>

\* the next validate_full run on the same project
signature_next_run ==
    /\ sigrun.pc = "done"
    /\ sigrun' = [pc |-> "idle"]
    /\ UNCHANGED sigfile
    /\ UNCHANGED <<vvars, svars, xvars, yvars>>

\* ------------------------------------------------------------------------
\* validate_full.py: kinematic swing-path validation
\* ------------------------------------------------------------------------

\* angles are integers in units of 1e-7 degree, so that round(v, 6) acts
DegUnit == 10000000

\* round(v, 6) on a value in 1e-7 degree
round6(v) == ((v + 5) \div 10) * 10

\* sampled_angles: the list of sampled angles. The quotient and the grid
\* points are exact here; the code's floating-point error on them is far
\* below the 1e-9 guard and the 6-decimal rounding.
sampled_angles(min_deg, max_deg, step_deg) ==
    IF step_deg <= 0
    THEN IF min_deg # max_deg THEN <<min_deg, max_deg>> ELSE <<min_deg>>
    ELSE LET lo == IF max_deg < min_deg THEN max_deg ELSE min_deg
             hi == IF max_deg < min_deg THEN min_deg ELSE max_deg
             count == ((hi - lo) \div step_deg) + 1
             values == [i \in 1..count |-> lo + step_deg * (i - 1)]
             closed == IF values[count] < hi THEN Append(values, hi) ELSE values
         IN [i \in DOMAIN closed |-> round6(closed[i])]

AngleArg(min_deg, max_deg, step_deg) ==
    [min |-> min_deg, max |-> max_deg, step |-> step_deg]

\* (min, max, step) arguments the sampler is applied to: the defaults
\* -24, 24, 3, coarser and finer steps, a widened range, a reversed range,
\* a zero step, a single-point range and a step that is not a multiple of
\* 1e-6 degree
AngleArgs ==
    {AngleArg(-24 * DegUnit, 24 * DegUnit, 3 * DegUnit),
     AngleArg(-24 * DegUnit, 24 * DegUnit, 6 * DegUnit),
     AngleArg(0, 10 * DegUnit, 5 * DegUnit),
     AngleArg(0, 10 * DegUnit, 3 * DegUnit),
     AngleArg(0, 10 * DegUnit, 10 * DegUnit),
     AngleArg(-1 * DegUnit, 10 * DegUnit, 5 * DegUnit),
     AngleArg(10 * DegUnit, 0, 5 * DegUnit),
     AngleArg(0, 10 * DegUnit, 0),
     AngleArg(0, 0, 5 * DegUnit),
     AngleArg(0, 10 * DegUnit, 25000005)}

sample_angles ==
    /\ angrun.pc = "start"
    /\ angrun' = [pc |-> "done", a |-> angrun.a, b |-> angrun.b,
               angles_a |-> sampled_angles(angrun.a.min, angrun.a.max, angrun.a.step),
               angles_b |-> sampled_angles(angrun.b.min, angrun.b.max, angrun.b.step)]
    /\ UNCHANGED <<vvars, svars, gvars, kinrun, manrun, resrun, lockrun, yvars>>

AngIdle == angrun = [pc |-> "idle"]

\* ---- the baseline reference-fit report handed to the validator
PathStates == {"absent", "null", "missing_file", "empty_scene", "mesh"}
ScalarStates == {"absent", "null", "text", "number"}

\* the five scalars read from the report, in the order the code reads them
ScalarNames ==
    <<"REFERENCE_FRAME_SPACING", "seat_z_model_mm", "frame_alignment_z_mm",
      "frame_penetration_max_mm", "frame_min_gap_mm">>

InputsShapes ==
    {[kind |-> "absent"], [kind |-> "not_dict"]}
        \cup {[kind |-> "dict", hull_stl |-> h, frame_stl |-> f] :
                h \in PathStates, f \in PathStates}

\* all scalars numeric, or exactly one of them absent, null or not a number
ScalarShapes ==
    {[i \in DOMAIN ScalarNames |-> "number"]}
        \cup {[i \in DOMAIN ScalarNames |-> IF i = j THEN s ELSE "number"] :
                j \in DOMAIN ScalarNames, s \in ScalarStates \ {"number"}}

BaselineReports ==
    {[kind |-> "none"], [kind |-> "not_dict"]}
        \cup {[kind |-> "dict", inputs |-> i, scalars |-> s] :
                i \in InputsShapes, s \in ScalarShapes}

\* the exception Path(inputs[key]) / load_mesh raises: "" when it returns
load_mesh_raises(path) ==
    CASE path = "absent" -> "KeyError"
      [] path = "null" -> "TypeError"
      [] path = "missing_file" -> "FileNotFoundError"
      [] path = "empty_scene" -> "ValueError"
      [] OTHER -> ""

\* the exception float(container[name]) raises: "" when it returns
float_raises(scalar) ==
    CASE scalar = "absent" -> "KeyError"
      [] scalar = "null" -> "TypeError"
      [] scalar = "text" -> "ValueError"
      [] OTHER -> ""

\* the first exception of a sequence of steps: "" when none raises
RECURSIVE FirstRaised(_)
FirstRaised(raised) ==
    IF raised = <<>> THEN ""
    ELSE IF Head(raised) # "" THEN Head(raised)
    ELSE FirstRaised(Tail(raised))

KinematicFailure(message) ==
    [pass |-> FALSE, error |-> message, placements |-> <<>>]

Uncaught(exc) == [exception |-> exc]

\* faulty variant: the except clause does not list KeyError
scalar_failure_without_key_error(exc) ==
    IF exc \in {"TypeError", "ValueError"}
    THEN KinematicFailure("Baseline reference-fit report missing required scalar values")
    ELSE Uncaught(exc)

\* the except clause around the five float(...) reads
scalar_failure(exc) ==
    IF exc \in {"KeyError", "TypeError", "ValueError"}
    THEN KinematicFailure("Baseline reference-fit report missing required scalar values")
    ELSE Uncaught(exc)

\* the except clause around the two load_mesh calls
mesh_failure(exc) ==
    IF exc \in {"KeyError", "OSError", "ValueError", "TypeError", "FileNotFoundError"}
    THEN KinematicFailure("Failed to load baseline meshes")
    ELSE Uncaught(exc)

\* the measurement of one pose from its signed distances
\* faulty variant: the angle passes on the gap alone
kinematic_angle_result_gap_only(angle, signed) ==
    [angle_deg |-> angle,
     max_penetration_mm |-> Max2(0, SeqMax(signed)),
     min_gap_mm |-> frame_min_gap(signed),
     pass |-> frame_min_gap(signed) >= frame_min_gap_mm]

kinematic_angle_result(angle, signed) ==
    LET max_penetration == Max2(0, SeqMax(signed))
        min_gap == frame_min_gap(signed)
    IN [angle_deg |-> angle,
        max_penetration_mm |-> max_penetration,
        min_gap_mm |-> min_gap,
        pass |-> max_penetration <= frame_penetration_max_mm
                    /\ min_gap >= frame_min_gap_mm]

\* faulty variant: placement_pass is overwritten by each angle
placement_pass_last_angle(angle_results) ==
    angle_results[Len(angle_results)].pass

placement_pass(angle_results) ==
    \A i \in DOMAIN angle_results : angle_results[i].pass

XSigns == {-1, 1}

kinematic_placements(angles, signed) ==
    [x_sign \in XSigns |->
        LET angle_results ==
                [i \in DOMAIN angles |-> kinematic_angle_result(angles[i], signed[x_sign][i])]
        IN [angles |-> angle_results, pass |-> placement_pass(angle_results)]]

\* dynamic_kinematic_validation: signed[x_sign][i] are the signed distances
\* of the frame samples at placement x_sign and angle i
dynamic_kinematic_validation(report, arg, signed) ==
    IF report.kind # "dict"
    THEN KinematicFailure("Baseline reference-fit report is unavailable; cannot run kinematic sweep.")
    ELSE IF report.inputs.kind = "not_dict"
    THEN KinematicFailure("Baseline reference-fit report missing inputs.")
    ELSE LET hull == IF report.inputs.kind = "absent" THEN "absent"
                     ELSE report.inputs.hull_stl
             frame == IF report.inputs.kind = "absent" THEN "absent"
                      ELSE report.inputs.frame_stl
             mesh_exc == FirstRaised(<<load_mesh_raises(hull), load_mesh_raises(frame)>>)
             scalar_exc == FirstRaised([i \in DOMAIN ScalarNames |->
                                           float_raises(report.scalars[i])])
             angles == sampled_angles(arg.min, arg.max, arg.step)
             placements == kinematic_placements(angles, signed)
         IN IF mesh_exc # "" THEN mesh_failure(mesh_exc)
            ELSE IF scalar_exc # "" THEN scalar_failure(scalar_exc)
            ELSE [pass |-> \A x_sign \in XSigns :
                              \A i \in DOMAIN angles : placements[x_sign].angles[i].pass,
                  sample_count |-> Len(angles),
                  placements |-> placements]

\* the report is one the validator can run the sweep on
KinematicReportUsable(report) ==
    /\ report.kind = "dict"
    /\ report.inputs.kind = "dict"
    /\ report.inputs.hull_stl = "mesh"
    /\ report.inputs.frame_stl = "mesh"
    /\ \A i \in DOMAIN ScalarNames : report.scalars[i] = "number"

\* angle arguments of the validator's runs: 3, 2 and 1 sampled angles
KinAngleArgs ==
    {AngleArg(-24 * DegUnit, 24 * DegUnit, 24 * DegUnit),
     AngleArg(-24 * DegUnit, 24 * DegUnit, 48 * DegUnit),
     AngleArg(0, 0, 3 * DegUnit)}

NoSigned == [x_sign \in XSigns |-> <<>>]

KinIdle == kinrun = [pc |-> "idle"]

\* one call of dynamic_kinematic_validation by main()
kinematic_gate ==
    /\ kinrun.pc = "idle"
    /\ \E report \in BaselineReports, arg \in KinAngleArgs :
          IF KinematicReportUsable(report)
          THEN \E signed \in [XSigns ->
                                [1..Len(sampled_angles(arg.min, arg.max, arg.step))
                                    -> FrameSampleSets]] :
                  kinrun' = [pc |-> "done", report |-> report, arg |-> arg,
                          signed |-> signed,
                          result |-> dynamic_kinematic_validation(report, arg, signed)]
          ELSE kinrun' = [pc |-> "done", report |-> report, arg |-> arg,
                       signed |-> NoSigned,
                       result |-> dynamic_kinematic_validation(report, arg, NoSigned)]
    /\ UNCHANGED <<vvars, svars, gvars, angrun, manrun, resrun, lockrun, yvars>>

\* ------------------------------------------------------------------------
\* validate_full.py: manufacturability validation
\* lengths in 0.01 mm, areas in mm2, ratios in percent
\* ------------------------------------------------------------------------

min_wall_thickness_mm == 100
wall_thickness_probe_min_valid == 2
wall_thickness_probe_percentile == 5
wall_thickness_probe_noise_floor_mm == 25
min_recess_skin_mm == 100
max_risky_overhang_ratio == 35
min_contact_area_mm2 == 700
min_contact_span_x_mm == 6000
min_contact_span_y_mm == 1800

\* number of probe points taken from the mesh
ProbeCount == 3

\* values trimesh.proximity.thickness returns for a probe: not finite,
\* below the noise floor, a thin wall, a thick wall
ProbeValues ==
    {[finite |-> FALSE, v |-> 0],
     [finite |-> TRUE, v |-> 20],
     [finite |-> TRUE, v |-> 50],
     [finite |-> TRUE, v |-> 150]}

\* what one thickness_fn(..., method) call does: raises, or returns values
ProbeOutcomes ==
    {[raised |-> TRUE, values |-> <<>>]}
        \cup {[raised |-> FALSE, values |-> vs] : vs \in [1..ProbeCount -> ProbeValues]}

IsValidProbe(x) ==
    x.finite /\ x.v > Max2(0, wall_thickness_probe_noise_floor_mm)

\* valid_values of one attempt, as numbers
valid_values(outcome) ==
    IF outcome.raised THEN <<>>
    ELSE LET kept == SelectSeq(outcome.values, IsValidProbe)
         IN [i \in DOMAIN kept |-> kept[i].v]

RECURSIVE Insert(_, _)
Insert(x, sorted) ==
    IF sorted = <<>> THEN <<x>>
    ELSE IF x <= Head(sorted) THEN <<x>> \o sorted
    ELSE <<Head(sorted)>> \o Insert(x, Tail(sorted))

RECURSIVE Sorted(_)
Sorted(s) == IF s = <<>> THEN <<>> ELSE Insert(Head(s), Sorted(Tail(s)))

\* np.percentile(values, q), linear interpolation, times 100
percentile_x100(values, q) ==
    LET s == Sorted(values)
        n == Len(s)
        h == (n - 1) * q
        k == h \div 100
    IN IF k + 1 >= n THEN s[n] * 100
       ELSE s[k + 1] * 100 + (h - 100 * k) * (s[k + 2] - s[k + 1])

\* faulty variant: the status is ok as soon as one probe is valid
probe_status_any_valid(valid_count, min_required) ==
    IF valid_count >= 1 THEN "ok" ELSE "insufficient_valid_probes"

probe_status(valid_count, min_required) ==
    IF valid_count >= min_required THEN "ok" ELSE "insufficient_valid_probes"

\* the loop over ("ray", "max_sphere"): the attempts made and the best one
thickness_attempts(ray, max_sphere, min_required) ==
    LET ray_valid == valid_values(ray)
        sphere_valid == valid_values(max_sphere)
        ray_attempt == [method |-> "ray", failed |-> ray.raised,
                        valid_probe_count |-> Len(ray_valid)]
        sphere_attempt == [method |-> "max_sphere", failed |-> max_sphere.raised,
                           valid_probe_count |-> Len(sphere_valid)]
    IN IF ~ray.raised /\ Len(ray_valid) >= min_required
       THEN [attempts |-> <<ray_attempt>>, best |-> <<ray_valid>>, method |-> "ray"]
       ELSE IF max_sphere.raised
       THEN [attempts |-> <<ray_attempt, sphere_attempt>>,
             best |-> IF ray.raised THEN <<>> ELSE <<ray_valid>>,
             method |-> IF ray.raised THEN "none" ELSE "ray"]
       ELSE IF ray.raised \/ Len(sphere_valid) > Len(ray_valid)
       THEN [attempts |-> <<ray_attempt, sphere_attempt>>,
             best |-> <<sphere_valid>>, method |-> "max_sphere"]
       ELSE [attempts |-> <<ray_attempt, sphere_attempt>>,
             best |-> <<ray_valid>>, method |-> "ray"]

\* sample_local_thickness_probes on a mesh with total_faces faces
sample_local_thickness_probes(total_faces, thickness) ==
    LET min_required == Max2(1, wall_thickness_probe_min_valid)
        percentile_clamped == IF wall_thickness_probe_percentile > 100 THEN 100
                              ELSE Max2(0, wall_thickness_probe_percentile)
        tried == thickness_attempts(thickness.ray, thickness.max_sphere, min_required)
    IN IF total_faces = 0
       THEN [status |-> "no_faces", probe_count |-> 0, valid_probe_count |-> 0]
       ELSE IF ~thickness.available
       THEN [status |-> "unavailable", probe_count |-> ProbeCount,
             valid_probe_count |-> 0, probe_min_valid |-> min_required]
       ELSE IF tried.best = <<>> \/ tried.best = << <<>> >>
       THEN [status |-> "probe_failed", probe_count |-> ProbeCount,
             valid_probe_count |-> 0, probe_min_valid |-> min_required,
             method_attempts |-> tried.attempts]
       ELSE [status |-> probe_status(Len(tried.best[1]), min_required),
             probe_count |-> ProbeCount,
             valid_probe_count |-> Len(tried.best[1]),
             probe_min_valid |-> min_required,
             method_used |-> tried.method,
             minimum_mm |-> SeqMin(tried.best[1]),
             percentile_mm |-> percentile_x100(tried.best[1], percentile_clamped),
             method_attempts |-> tried.attempts]

\* sampled_local_wall_gate: percentile_mm is carried times 100
sampled_local_wall_gate(probes) ==
    /\ probes.status = "ok"
    /\ "percentile_mm" \in DOMAIN probes
    /\ probes.percentile_mm >= min_wall_thickness_mm * 100

\* ---- the preset's declared parameters and the mesh measurements
NominalPreset ==
    [wall_mm |-> 160, wall_end_taper_ratio |-> 100, floor_mm |-> 200,
     slot_outer_skin_min_mm |-> 140, slot_skin_mm |-> 135, feet_on |-> TRUE,
     foot_recess_depth_mm |-> 50, foot_recess_skin_mm |-> 100]
ThinSkinPreset == [NominalPreset EXCEPT !.slot_skin_mm = 90]
DeepRecessPreset == [NominalPreset EXCEPT !.foot_recess_depth_mm = 130]

NominalGeometry ==
    [risky_ratio |-> 20, contact_area |-> 800, contact_span_x |-> 7000,
     contact_span_y |-> 2000]
OverhangGeometry == [NominalGeometry EXCEPT !.risky_ratio = 50]
NarrowGeometry == [NominalGeometry EXCEPT !.contact_span_y = 1000]

\* the preset and the hull mesh of a run: nominal, or with one defect
ManCases ==
    {[preset |-> NominalPreset, geometry |-> NominalGeometry],
     [preset |-> ThinSkinPreset, geometry |-> NominalGeometry],
     [preset |-> DeepRecessPreset, geometry |-> NominalGeometry],
     [preset |-> NominalPreset, geometry |-> OverhangGeometry],
     [preset |-> NominalPreset, geometry |-> NarrowGeometry]}

ManGateNames ==
    {"minimum_wall_thickness", "sampled_local_wall_thickness",
     "recess_skin_thickness", "overhang_risk", "stable_contact_footprint"}

declared_min_wall_thickness(preset) ==
    SeqMin(<<(preset.wall_mm * preset.wall_end_taper_ratio) \div 100,
             preset.slot_outer_skin_min_mm,
             preset.slot_skin_mm>>)

estimated_recess_skin(preset) ==
    IF preset.feet_on THEN preset.floor_mm - preset.foot_recess_depth_mm
    ELSE preset.floor_mm

manufacturability_gates(preset, geometry, probes) ==
    [minimum_wall_thickness |->
         declared_min_wall_thickness(preset) >= min_wall_thickness_mm,
     sampled_local_wall_thickness |-> sampled_local_wall_gate(probes),
     recess_skin_thickness |->
         /\ estimated_recess_skin(preset) >= min_recess_skin_mm
         /\ estimated_recess_skin(preset) >= preset.foot_recess_skin_mm,
     overhang_risk |-> geometry.risky_ratio <= max_risky_overhang_ratio,
     stable_contact_footprint |->
         /\ geometry.contact_area >= min_contact_area_mm2
         /\ geometry.contact_span_x >= min_contact_span_x_mm
         /\ geometry.contact_span_y >= min_contact_span_y_mm]

\* faulty variant: the sampled gate is left out of the verdict
manufacturability_pass_without_sampled_gate(gates) ==
    \A g \in DOMAIN gates \ {"sampled_local_wall_thickness"} : gates[g]

manufacturability_pass(gates) == \A g \in DOMAIN gates : gates[g]

ManufacturabilityFailure(message) ==
    [pass |-> FALSE, error |-> message, gates |-> <<>>, measurements |-> <<>>]

HullStates == {"absent", "missing_file", "empty_mesh", "mesh"}

ManReports ==
    {[kind |-> "none"], [kind |-> "not_dict"],
     [kind |-> "dict", inputs |-> [kind |-> "not_dict"]]}
        \cup {[kind |-> "dict",
               inputs |-> [kind |-> "dict", preset_exists |-> e, hull_stl |-> h]] :
                e \in BOOLEAN, h \in HullStates}

ManReportUsable(report) ==
    /\ report.kind = "dict"
    /\ report.inputs.kind = "dict"
    /\ report.inputs.preset_exists
    /\ report.inputs.hull_stl \in {"empty_mesh", "mesh"}

\* manufacturability_validation. A hull mesh without faces has no vertices
\* left after load_mesh, and np.min over them raises ValueError.
manufacturability_validation(report, case, thickness) ==
    IF report.kind # "dict"
    THEN ManufacturabilityFailure("Baseline reference-fit report is unavailable; cannot evaluate manufacturability.")
    ELSE IF report.inputs.kind # "dict"
    THEN ManufacturabilityFailure("Baseline reference-fit report missing inputs.")
    ELSE IF ~report.inputs.preset_exists
    THEN ManufacturabilityFailure("Preset file not found for manufacturability check")
    ELSE IF report.inputs.hull_stl = "absent"
    THEN ManufacturabilityFailure("Baseline reference-fit report missing inputs.hull_stl.")
    ELSE IF report.inputs.hull_stl = "missing_file"
    THEN ManufacturabilityFailure("Failed to load hull mesh for manufacturability check")
    ELSE IF report.inputs.hull_stl = "empty_mesh"
    THEN Uncaught("ValueError")
    ELSE LET probes == sample_local_thickness_probes(ProbeCount, thickness)
             gates == manufacturability_gates(case.preset, case.geometry, probes)
         IN [pass |-> manufacturability_pass(gates),
             gates |-> gates,
             measurements |->
                 [min_wall_thickness_mm |-> declared_min_wall_thickness(case.preset),
                  sampled_local_thickness_probes |-> probes,
                  foot_recess_skin_estimated_mm |-> estimated_recess_skin(case.preset),
                  risky_overhang_ratio |-> case.geometry.risky_ratio,
                  contact_area_mm2 |-> case.geometry.contact_area,
                  contact_span_x_mm |-> case.geometry.contact_span_x,
                  contact_span_y_mm |-> case.geometry.contact_span_y]]

NoThickness ==
    [available |-> FALSE,
     ray |-> [raised |-> TRUE, values |-> <<>>],
     max_sphere |-> [raised |-> TRUE, values |-> <<>>]]

ManIdle == manrun = [pc |-> "idle"]

\* one call of manufacturability_validation by main()
manufacturability_gate ==
    /\ manrun.pc = "idle"
    /\ \E report \in ManReports, case \in ManCases :
          \E thickness \in
                IF ManReportUsable(report) /\ report.inputs.hull_stl = "mesh"
                THEN {NoThickness}
                        \cup [available : {TRUE}, ray : ProbeOutcomes,
                              max_sphere : ProbeOutcomes]
                ELSE {NoThickness} :
             manrun' = [pc |-> "done", report |-> report, case |-> case,
                        thickness |-> thickness,
                        result |-> manufacturability_validation(report, case, thickness)]
    /\ UNCHANGED <<vvars, svars, gvars, kinrun, angrun, resrun, lockrun, yvars>>

\* ------------------------------------------------------------------------
\* verify_reference_fit.py: the reference constant resolver
\* ------------------------------------------------------------------------

\* names a reference file may declare; the first is a required constant
ConstantNames == {"REFERENCE_A", "REFERENCE_B", "REFERENCE_C"}
REQUIRED_REFERENCE_CONSTANTS == {"REFERENCE_A"}

\* a name no file declares
UndeclaredName == "REFERENCE_M"

Num(v) == [op |-> "num", v |-> v]
Name(id) == [op |-> "name", id |-> id]
AddName(id, v) == [op |-> "add", id |-> id, v |-> v]
DivByName(v, id) == [op |-> "div", v |-> v, id |-> id]

\* right-hand sides: a number, a name, name + 2, 12 / name. Every quotient
\* these expressions can produce is a whole number.
Expressions ==
    {Num(2), Num(0)}
        \cup {Name(id) : id \in ConstantNames \cup {UndeclaredName}}
        \cup {AddName(id, 2) : id \in ConstantNames \cup {UndeclaredName}}
        \cup {DivByName(12, id) : id \in ConstantNames \cup {UndeclaredName}}

\* the declared names of a file: all of them, or all but the required one
DeclaredSets == {ConstantNames, ConstantNames \ REQUIRED_REFERENCE_CONSTANTS}

\* the orders in which a file can declare the names of a set
Orders(names) ==
    {o \in [1..Cardinality(names) -> names] :
        \A i, j \in 1..Cardinality(names) : i # j => o[i] # o[j]}

Value(v) == [raised |-> "", value |-> v]
Raised(exc) == [raised |-> exc, value |-> 0]

\* faulty variant: a name without a value yet evaluates to 0
eval_expression_unset_as_zero(expr, constants) ==
    LET looked == IF expr.op = "num" THEN 0
                  ELSE IF expr.id \in DOMAIN constants THEN constants[expr.id] ELSE 0
    IN CASE expr.op = "num" -> Value(expr.v)
         [] expr.op = "name" -> Value(looked)
         [] expr.op = "add" -> Value(looked + expr.v)
         [] OTHER -> IF looked = 0 THEN Raised("ZeroDivisionError")
                     ELSE Value(expr.v \div looked)

\* eval_expression: walk over the parsed expression
eval_expression(expr, constants) ==
    CASE expr.op = "num" -> Value(expr.v)
      [] expr.op = "name" ->
            IF expr.id \notin DOMAIN constants THEN Raised("KeyError")
            ELSE Value(constants[expr.id])
      [] expr.op = "add" ->
            IF expr.id \notin DOMAIN constants THEN Raised("KeyError")
            ELSE Value(constants[expr.id] + expr.v)
      [] OTHER ->
            IF expr.id \notin DOMAIN constants THEN Raised("KeyError")
            ELSE IF constants[expr.id] = 0 THEN Raised("ZeroDivisionError")
            ELSE Value(expr.v \div constants[expr.id])

\* the for loop of one pass over list(unresolved.keys()): st carries
\* constants, the names still unresolved, progressed and a raised exception
RECURSIVE resolve_names(_, _, _)
resolve_names(names, expressions, st) ==
    IF names = <<>> THEN st
    ELSE LET name == Head(names)
             r == eval_expression(expressions[name], st.constants)
         IN IF r.raised = "KeyError"
            THEN resolve_names(Tail(names), expressions, st)
            ELSE IF r.raised # ""
            THEN [st EXCEPT !.raised = r.raised]
            ELSE resolve_names(Tail(names), expressions,
                     [st EXCEPT !.constants = (name :> r.value) @@ st.constants,
                                !.unresolved = SelectSeq(st.unresolved,
                                                         LAMBDA n : n # name),
                                !.progressed = TRUE])

NoError == [type |-> "", names |-> {}]

\* the state of the resolver after one pass of the while loop
resolve_pass_result(st) ==
    LET after == resolve_names(st.unresolved, st.expressions,
                               [st EXCEPT !.progressed = FALSE])
    IN IF after.raised # ""
       THEN [after EXCEPT !.pc = "raised",
                          !.error = [type |-> after.raised, names |-> {}]]
       ELSE IF ~after.progressed
       THEN [after EXCEPT !.pc = "raised", !.raised = "ValueError",
                          !.error = [type |-> "Could not resolve reference constants",
                                     names |-> {after.unresolved[i] :
                                                  i \in DOMAIN after.unresolved}]]
       ELSE after

\* the state of the resolver once the while loop has ended
resolve_return_result(st) ==
    LET missing == REQUIRED_REFERENCE_CONSTANTS \ DOMAIN st.constants
    IN IF missing # {}
       THEN [st EXCEPT !.pc = "raised", !.raised = "ValueError",
                       !.error = [type |-> "Missing required reference constants",
                                  names |-> missing]]
       ELSE [st EXCEPT !.pc = "returned", !.result = <<st.constants>>]

\* the resolver at the head of its while loop, for a file that declares
\* the names of order, in that order, with the given right-hand sides
ResolverStart(expressions, order) ==
    [pc |-> "loop", expressions |-> expressions, order |-> order,
     constants |-> <<>>, unresolved |-> order, progressed |-> FALSE,
     raised |-> "", error |-> NoError, result |-> <<>>]

\* parse_reference_constants run to its end
RECURSIVE parse_reference_constants(_)
parse_reference_constants(st) ==
    IF st.pc # "loop" THEN st
    ELSE IF st.unresolved = <<>> THEN resolve_return_result(st)
    ELSE parse_reference_constants(resolve_pass_result(st))

ResIdle == resrun = [pc |-> "idle"]

\* one pass of the while loop
resolve_pass ==
    /\ resrun.pc = "loop"
    /\ resrun.unresolved # <<>>
    /\ resrun' = resolve_pass_result(resrun)
    /\ UNCHANGED <<vvars, svars, gvars, kinrun, angrun, manrun, lockrun, yvars>>

\* the while loop has ended: the required-constants check and the return
resolve_return ==
    /\ resrun.pc = "loop"
    /\ resrun.unresolved = <<>>
    /\ resrun' = resolve_return_result(resrun)
    /\ UNCHANGED <<vvars, svars, gvars, kinrun, angrun, manrun, lockrun, yvars>>

\* ------------------------------------------------------------------------
\* verify_reference_fit.py: the constant lock and the report's verdict
\* ------------------------------------------------------------------------

\* measurements with the same result at every slot and at every frame
UniformMeasurementInputs ==
    [watertight : BOOLEAN,
     slot_depth : SlotDepths,
     slots : {[i \in 1..4 |-> m] : m \in SlotMeasurements},
     frames : {[i \in 1..2 |-> m] : m \in FrameMeasurements}]

LockIdle == lockrun = [pc |-> "idle"]

\* main(): evaluate_reference_constant_lock on the resolved constants
lock_evaluate ==
    /\ lockrun.pc = "start"
    /\ lockrun' = [pc |-> "locked", constants |-> lockrun.constants,
                   lock |-> evaluate_reference_constant_lock(lockrun.constants)]
    /\ UNCHANGED <<vvars, svars, gvars, kinrun, angrun, manrun, resrun, yvars>>

\* main(): analyze_reference_fit with reference_constants_locked
lock_analyze ==
    /\ lockrun.pc = "locked"
    /\ \E inp \in UniformMeasurementInputs :
          lockrun' = [pc |-> "done", constants |-> lockrun.constants,
                      lock |-> lockrun.lock,
                      report |-> analyze_reference_fit(inp, lockrun.lock.locked)]
    /\ UNCHANGED <<vvars, svars, gvars, kinrun, angrun, manrun, resrun, yvars>>

\* ------------------------------------------------------------------------
\* validate_full.py: the sweep configuration and the command suite of main()
\* ------------------------------------------------------------------------

\* exit status of argparse for an argument it cannot convert, and of main()
\* for a sweep profile error
ArgumentErrorStatus == 2
SweepProfileErrorStatus == 2

\* --floor-clearance-min-mm as typed (type=float): float() converts every
\* text but the last one
ThresholdTexts == {"0.20", "nan", "loose"}
float_parses(text) == text # "loose"

\* preset names as written in the config, and the files under presets/
PresetFiles == {"gcsc_default", "gcsc_fast_print"}
strip(text) ==
    CASE text = " " -> ""
      [] text = " gcsc_default " -> "gcsc_default"
      [] OTHER -> text

\* raw_profile.get("presets")
PresetLists ==
    {[kind |-> "other", items |-> <<>>],
     [kind |-> "list", items |-> <<>>],
     [kind |-> "list", items |-> <<" ">>],
     [kind |-> "list", items |-> <<"gcsc_retired">>],
     [kind |-> "list", items |-> <<" gcsc_default ">>],
     [kind |-> "list", items |-> <<"gcsc_default", "gcsc_fast_print">>]}

\* the overrides of a perturbation entry: the JSON type of each value
OverrideMaps ==
    {[kind |-> "other", values |-> <<>>],
     [kind |-> "dict", values |-> <<>>],
     [kind |-> "dict", values |-> <<"str">>],
     [kind |-> "dict", values |-> <<"float", "str">>],
     [kind |-> "dict", values |-> <<"float">>],
     [kind |-> "dict", values |-> <<"bool", "int">>]}

PerturbationEntries ==
    {[kind |-> "other", name |-> "", overrides |-> [kind |-> "other", values |-> <<>>]]}
        \cup {[kind |-> "dict", name |-> " ",
               overrides |-> [kind |-> "dict", values |-> <<"float">>]]}
        \cup {[kind |-> "dict", name |-> "floor_plus_0p80", overrides |-> o] :
                 o \in OverrideMaps}

\* raw_profile.get("perturbations", [])
PerturbationLists ==
    {[kind |-> "absent", items |-> <<>>],
     [kind |-> "other", items |-> <<>>],
     [kind |-> "list", items |-> <<>>]}
        \cup {[kind |-> "list", items |-> <<e>>] : e \in PerturbationEntries}

\* the sweep config file as load_json and normalize_sweep_profile see it
ProfileOf(presets, perturbations) ==
    [json |-> "dict", profiles |-> "dict", profile |-> "dict",
     presets |-> presets, perturbations |-> perturbations]
NominalPresets == [kind |-> "list", items |-> <<"gcsc_default", "gcsc_fast_print">>]
NoPerturbations == [kind |-> "absent", items |-> <<>>]
SweepConfigs ==
    {[ProfileOf(NominalPresets, NoPerturbations) EXCEPT !.json = j] :
        j \in {"missing", "invalid_json", "not_dict"}}
        \cup {[ProfileOf(NominalPresets, NoPerturbations) EXCEPT !.profiles = "other"],
              [ProfileOf(NominalPresets, NoPerturbations) EXCEPT !.profile = "absent"]}
        \cup {ProfileOf(p, q) : p \in PresetLists, q \in PerturbationLists}

ProfileError(message) ==
    [ok |-> FALSE, error |-> message, presets |-> <<>>, perturbations |-> <<>>]

\* _validate_perturbation_overrides: the ValueError it raises, "" when none
validate_perturbation_overrides(overrides) ==
    IF overrides.kind # "dict"
    THEN "Perturbation overrides must be an object."
    ELSE IF \E i \in DOMAIN overrides.values :
               overrides.values[i] \notin {"bool", "int", "float"}
    THEN "Perturbation override must be bool/int/float."
    ELSE IF overrides.values = <<>>
    THEN "Perturbation overrides must not be empty."
    ELSE ""

\* one pass of the loop over raw_perturbations
perturbation_entry_error(entry) ==
    IF entry.kind # "dict"
    THEN "Sweep profile has invalid perturbation entry."
    ELSE IF strip(entry.name) = ""
    THEN "Sweep profile has perturbation without valid name."
    ELSE validate_perturbation_overrides(entry.overrides)

normalize_sweep_profile(cfg) ==
    IF cfg.json # "dict"
    THEN ProfileError("Sweep config missing or invalid JSON")
    ELSE IF cfg.profiles # "dict"
    THEN ProfileError("Sweep config missing profiles object")
    ELSE IF cfg.profile # "dict"
    THEN ProfileError("Sweep profile missing in config")
    ELSE IF cfg.presets.kind # "list" \/ cfg.presets.items = <<>>
    THEN ProfileError("Sweep profile must define a non-empty presets list.")
    ELSE IF \E i \in DOMAIN cfg.presets.items : strip(cfg.presets.items[i]) = ""
    THEN ProfileError("Sweep profile contains invalid preset value.")
    ELSE IF cfg.perturbations.kind = "other"
    THEN ProfileError("Sweep profile has non-list perturbations.")
    ELSE LET entries == cfg.perturbations.items
             exc == FirstRaised([i \in DOMAIN entries |->
                                    perturbation_entry_error(entries[i])])
         IN IF exc # "" THEN ProfileError(exc)
            ELSE [ok |-> TRUE, error |-> "",
                  presets |-> [i \in DOMAIN cfg.presets.items |->
                                 strip(cfg.presets.items[i])],
                  perturbations |-> [i \in DOMAIN entries |-> strip(entries[i].name)]]

\* resolve_sweep_profile without --sweep-presets: the profile, then the
\* preset files it names
resolve_sweep_profile(cfg) ==
    LET normalized == normalize_sweep_profile(cfg)
    IN IF ~normalized.ok THEN normalized
       ELSE IF \E i \in DOMAIN normalized.presets :
                  normalized.presets[i] \notin PresetFiles
       THEN ProfileError("Sweep presets missing from codex_hull_lab/presets")
       ELSE normalized

\* build_command_suite: the names and timeouts of the specs
QuickCommandSuite ==
    <<[name |-> "verify_reference_fit", timeout_s |-> 2400],
      [name |-> "verify_shape_sensitivity", timeout_s |-> 1800]>>
FullCommandSuite ==
    <<[name |-> "test_reference_fit", timeout_s |-> 3600],
      [name |-> "test_shape_sensitivity", timeout_s |-> 3000],
      [name |-> "test_functional_requirements_hook", timeout_s |-> 300]>>
build_command_suite(quick_mode) ==
    IF quick_mode THEN QuickCommandSuite ELSE QuickCommandSuite \o FullCommandSuite

\* how a command of the suite ends: its status, or the timeout of run_command
SuiteOutcomes ==
    {[rc |-> 0, timed_out |-> FALSE],
     [rc |-> 1, timed_out |-> FALSE],
     [rc |-> 0, timed_out |-> TRUE]}

\* faulty variant: the loop never breaks
suite_breaks_never(fail_fast, result) == FALSE

\* main(): if fail_fast and not result["pass"]: break
suite_breaks(fail_fast, result) == fail_fast /\ ~result.pass

\* main(): command_suite_pass
command_suite_pass(command_results, command_specs) ==
    /\ Len(command_results) = Len(command_specs)
    /\ \A i \in DOMAIN command_results : command_results[i].pass

SuiteInputs ==
    [sweep_config : SweepConfigs,
     threshold : ThresholdTexts,
     quick : BOOLEAN,
     no_subcommand_fail_fast : BOOLEAN]

SuiteStart(args) ==
    [pc |-> "start",
     args |-> args,
     started |-> <<>>,           \* history: external invocations started
     command_specs |-> <<>>,
     command_results |-> <<>>,
     gates |-> EmptyGates,
     pass |-> FALSE,
     wrote |-> FALSE,
     exit |-> Running]

SuiteIdle == suiterun = [pc |-> "idle"]

\* main(): parse_args and resolve_sweep_profile, then build_command_suite
suite_resolve ==
    /\ suiterun.pc = "idle"
    /\ \E args \in SuiteInputs :
          IF ~float_parses(args.threshold)
          THEN suiterun' = [SuiteStart(args) EXCEPT
                            !.pc = "done", !.exit = ArgumentErrorStatus]
          ELSE IF ~resolve_sweep_profile(args.sweep_config).ok
          THEN suiterun' = [SuiteStart(args) EXCEPT
                            !.pc = "done", !.exit = SweepProfileErrorStatus]
          ELSE suiterun' = [SuiteStart(args) EXCEPT
                            !.pc = "suite",
                            !.command_specs = build_command_suite(args.quick)]
    /\ UNCHANGED <<vvars, svars, gvars, xvars, geomrun, orch>>

\* main(): one pass of the loop over command_specs
suite_run_command ==
    /\ suiterun.pc = "suite"
    /\ \E outcome \in SuiteOutcomes :
          LET spec == suiterun.command_specs[Len(suiterun.command_results) + 1]
              result == run_command(spec.name, outcome.rc, outcome.timed_out)
              fail_fast == ~suiterun.args.no_subcommand_fail_fast
              last == Len(suiterun.command_results) + 1 = Len(suiterun.command_specs)
          IN suiterun' = [suiterun EXCEPT
                 !.started = Append(@, spec.name),
                 !.command_results = Append(@, result),
                 !.pc = IF suite_breaks(fail_fast, result) \/ last
                        THEN "gates" ELSE "suite"]
    /\ UNCHANGED <<vvars, svars, gvars, xvars, geomrun, orch>>

\* main(): the sweep and the later gates, the report and the exit status
suite_finish ==
    /\ suiterun.pc = "gates"
    /\ \E sweep \in BOOLEAN, later \in BOOLEAN :
          LET gates == full_gates(command_suite_pass(suiterun.command_results,
                                                     suiterun.command_specs),
                                  sweep, later, later, later)
          IN suiterun' = [suiterun EXCEPT
                 !.pc = "done",
                 !.started = Append(@, "robustness_sweep"),
                 !.gates = gates,
                 !.pass = full_pass(gates),
                 !.wrote = TRUE,
                 !.exit = full_exit_status(full_pass(gates))]
    /\ UNCHANGED <<vvars, svars, gvars, xvars, geomrun, orch>>

\* ------------------------------------------------------------------------
\* verify_reference_fit.py: main() and ensure_geometry_inputs with the
\* caller's --hull-stl, --frame-stl, --slot-plug-stl and --reuse-exported-stls
\* ------------------------------------------------------------------------

\* the order in which ensure_geometry_inputs exports the meshes
ExportOrder == <<"hull", "frame", "plug">>

\* main(): explicit_input_stls = bool(hull_stl and frame_stl and slot_plug_stl)
explicit_input_stls(supplied) == supplied = MeshNames

GeometryArgs ==
    [supplied : SUBSET MeshNames,       \* the paths the caller gave
     reuse_exported_stls : BOOLEAN,
     files : [MeshNames -> {"absent", "mesh"}]]   \* the files at the three paths

GeomIdle == geomrun = [pc |-> "idle"]

GeometryReturn(rr) == [rr EXCEPT !.pc = "done", !.returned = TRUE]
GeometryRaise(rr) == [rr EXCEPT !.pc = "done", !.exit = PythonCrash]

\* main() up to the call, and ensure_geometry_inputs up to its first export
ensure_geometry_inputs_begin ==
    /\ geomrun.pc = "idle"
    /\ \E args \in GeometryArgs, tools_ok \in BOOLEAN :
          LET rr == [pc |-> "export",
                     args |-> args,
                     files |-> args.files,
                     next |-> 1,          \* position in ExportOrder
                     exported |-> <<>>,   \* history: paths the renderer was given
                     returned |-> FALSE,
                     exit |-> Running]
              all_exist == \A n \in MeshNames : args.files[n] # "absent"
          IN geomrun' =
                IF explicit_input_stls(args.supplied)
                THEN IF all_exist THEN GeometryReturn(rr) ELSE GeometryRaise(rr)
                ELSE IF args.reuse_exported_stls /\ all_exist
                THEN GeometryReturn(rr)
                ELSE IF ~tools_ok    \* ensure_export_inputs / resolve_openscad raise
                THEN GeometryRaise(rr)
                ELSE rr
    /\ UNCHANGED <<vvars, svars, gvars, xvars, suiterun, orch>>

\* ensure_geometry_inputs: one of the three guarded run_openscad_export calls
ensure_geometry_inputs_export ==
    /\ geomrun.pc = "export"
    /\ LET n == ExportOrder[geomrun.next]
           after(rr) == IF geomrun.next = Len(ExportOrder)
                        THEN GeometryReturn(rr)
                        ELSE [rr EXCEPT !.next = @ + 1]
       IN IF ~geomrun.args.reuse_exported_stls \/ geomrun.files[n] = "absent"
          THEN \E r \in RenderOutcomes :
                  LET ran == [geomrun EXCEPT
                                 !.exported = Append(@, n),
                                 !.files[n] = IF r.out # "absent" THEN r.out ELSE @]
                  IN geomrun' = IF verify_run_openscad_export(r)
                                THEN after(ran) ELSE GeometryRaise(ran)
          ELSE geomrun' = after(geomrun)
    /\ UNCHANGED <<vvars, svars, gvars, xvars, suiterun, orch>>

\* ------------------------------------------------------------------------
\* scripts/orchestration/runtime.py: the event log and the materialized
\* session state, written by concurrent processes.  Timestamps are left out
\* of events and states.
\* ------------------------------------------------------------------------

OrchProcs == {"agent-a", "agent-b"}    \* the processes calling the runtime
Sessions == {"session-1", "session-2"}
MaxOperations == 3     \* record operations started in one behaviour

TASK_STATUSES == {"pending", "in_progress", "blocked", "completed", "failed"}

\* the record operations the processes call, with their arguments
Operations ==
    {[name |-> "start_session", session_id |-> "session-1", arg |-> "user"],
     [name |-> "record_note", session_id |-> "session-1", arg |-> "note-a"],
     [name |-> "record_note", session_id |-> "session-1", arg |-> " "],
     [name |-> "record_note", session_id |-> "session-2", arg |-> "note-a"],
     [name |-> "record_task", session_id |-> "session-1", arg |-> "completed"],
     [name |-> "record_task", session_id |-> "session-1", arg |-> "retired"]}

\* the ValueError a record operation raises before append_event
record_raises(op) ==
    \/ op.name = "record_note" /\ strip(op.arg) = ""
    \/ op.name = "record_task" /\ op.arg \notin TASK_STATUSES

\* the event_type and data a record operation passes to append_event
record_event_type(op) ==
    CASE op.name = "start_session" -> "session_started"
      [] op.name = "record_note" -> "note_add"
      [] op.name = "record_task" -> "task_upsert"
record_data(op) ==
    CASE op.name = "start_session" -> [initiated_by |-> op.arg]
      [] op.name = "record_note" -> [note |-> strip(op.arg)]
      [] op.name = "record_task" -> [task |-> [id |-> "task-1", status |-> op.arg]]

default_session_state(session_id, initiated_by) ==
    [session_id |-> session_id,
     initiated_by |-> initiated_by,
     tasks |-> <<>>,
     notes |-> <<>>]

\* _upsert_list_item with key = "id"
upsert_list_item(items, item) ==
    IF \E i \in DOMAIN items : items[i].id = item.id
    THEN LET idx == CHOOSE i \in DOMAIN items :
                       /\ items[i].id = item.id
                       /\ \A j \in DOMAIN items : items[j].id = item.id => i <= j
         IN [items EXCEPT ![idx] = item]
    ELSE Append(items, item)

\* the state before the first event of a session is applied
NoState == <<>>

\* _apply_event
apply_event(state, event) ==
    LET base == IF state # NoState THEN state
                ELSE default_session_state(
                        event.session_id,
                        IF event.event_type = "session_started"
                        THEN event.data.initiated_by ELSE "unknown")
    IN CASE event.event_type = "session_started" ->
               [base EXCEPT !.initiated_by = event.data.initiated_by]
         [] event.event_type = "task_upsert" ->
               [base EXCEPT !.tasks = upsert_list_item(@, event.data.task)]
         [] event.event_type = "note_add" ->
               IF strip(event.data.note) # ""
               THEN [base EXCEPT !.notes = Append(@, strip(event.data.note))]
               ELSE base

\* filtered.sort(key=lambda e: int(e.get("seq", 0))): a stable sort
RECURSIVE InsertBySeq(_, _)
InsertBySeq(event, sorted) ==
    IF sorted = <<>> THEN <<event>>
    ELSE IF event.seq < Head(sorted).seq THEN <<event>> \o sorted
    ELSE <<Head(sorted)>> \o InsertBySeq(event, Tail(sorted))
RECURSIVE SortBySeq(_)
SortBySeq(events) ==
    IF events = <<>> THEN <<>>
    ELSE InsertBySeq(events[Len(events)], SortBySeq(SubSeq(events, 1, Len(events) - 1)))

RECURSIVE ApplyEvents(_, _)
ApplyEvents(state, events) ==
    IF events = <<>> THEN state
    ELSE ApplyEvents(apply_event(state, Head(events)), Tail(events))

replay_session(events, session_id) ==
    LET filtered == SortBySeq(SelectSeq(events, LAMBDA e : e.session_id = session_id))
        state == ApplyEvents(NoState, filtered)
    IN IF state = NoState THEN default_session_state(session_id, "unknown")
       ELSE state

\* faulty variant: the lock file is created whether or not it exists
file_lock_free_always(lock) == TRUE

\* _file_lock: os.open(lock_file, O_CREAT | O_EXCL | O_WRONLY) succeeds
file_lock_free(lock) == lock = ""

OrchIdle == orch = [pc |-> "idle"]

IdleProc == [pc |-> "idle"]
OrchStart ==
    [pc |-> "running",
     lock_file |-> "",             \* the pid in events.lock, "" when absent
     sequence_file |-> 0,          \* sequence.txt (0: absent)
     events_file |-> <<>>,         \* events.jsonl, one event per line
     state_dir |-> [s \in Sessions |-> NoState],   \* state/<session>.json
     proc |-> [p \in OrchProcs |-> IdleProc],
     started |-> 0]                \* record operations begun so far

\* a record operation is called: its validation, then append_event begins
record_begin(p) ==
    /\ orch.pc = "running"
    /\ orch.proc[p].pc = "idle"
    /\ orch.started < MaxOperations
    /\ \E op \in Operations :
          orch' = [orch EXCEPT
              !.started = @ + 1,
              !.proc[p] = IF record_raises(op) THEN IdleProc
                          ELSE [pc |-> "lock", op |-> op]]
    /\ UNCHANGED <<vvars, svars, gvars, xvars, suiterun, geomrun>>

\* _file_lock: create the lock file, or give up with TimeoutError after 10 s
\* of polling while another process holds it
file_lock_acquire(p) ==
    /\ orch.pc = "running"
    /\ orch.proc[p].pc = "lock"
    /\ IF file_lock_free(orch.lock_file)
       THEN orch' = [orch EXCEPT !.lock_file = p,
                                 !.proc[p] = [@ EXCEPT !.pc = "sequence_read"]]
       ELSE orch' = [orch EXCEPT !.proc[p] = IdleProc]
    /\ UNCHANGED <<vvars, svars, gvars, xvars, suiterun, geomrun>>

\* _next_sequence: read sequence.txt
next_sequence_read(p) ==
    /\ orch.pc = "running"
    /\ orch.proc[p].pc = "sequence_read"
    /\ orch' = [orch EXCEPT
          !.proc[p] = [pc |-> "sequence_write", op |-> orch.proc[p].op,
                       current |-> orch.sequence_file]]
    /\ UNCHANGED <<vvars, svars, gvars, xvars, suiterun, geomrun>>

\* _next_sequence: write sequence.txt
next_sequence_write(p) ==
    /\ orch.pc = "running"
    /\ orch.proc[p].pc = "sequence_write"
    /\ orch' = [orch EXCEPT
          !.sequence_file = orch.proc[p].current + 1,
          !.proc[p] = [pc |-> "append", op |-> orch.proc[p].op,
                       seq |-> orch.proc[p].current + 1]]
    /\ UNCHANGED <<vvars, svars, gvars, xvars, suiterun, geomrun>>

\* append_event: the event line is appended to events.jsonl
append_event(p) ==
    /\ orch.pc = "running"
    /\ orch.proc[p].pc = "append"
    /\ LET op == orch.proc[p].op
           event == [seq |-> orch.proc[p].seq,
                     session_id |-> op.session_id,
                     event_type |-> record_event_type(op),
                     actor |-> p,
                     data |-> record_data(op)]
       IN orch' = [orch EXCEPT
              !.events_file = Append(@, event),
              !.proc[p] = [@ EXCEPT !.pc = "unlock"]]
    /\ UNCHANGED <<vvars, svars, gvars, xvars, suiterun, geomrun>>

\* _file_lock: lock_file.unlink(missing_ok=True) on leaving the with block
file_lock_release(p) ==
    /\ orch.pc = "running"
    /\ orch.proc[p].pc = "unlock"
    /\ orch' = [orch EXCEPT !.lock_file = "",
                            !.proc[p] = [@ EXCEPT !.pc = "replay"]]
    /\ UNCHANGED <<vvars, svars, gvars, xvars, suiterun, geomrun>>

\* materialize_session_state: replay_session reads events.jsonl
materialize_replay(p) ==
    /\ orch.pc = "running"
    /\ orch.proc[p].pc = "replay"
    /\ orch' = [orch EXCEPT
          !.proc[p] = [pc |-> "write", op |-> orch.proc[p].op,
                       seq |-> orch.proc[p].seq,
                       state |-> replay_session(orch.events_file,
                                                orch.proc[p].op.session_id)]]
    /\ UNCHANGED <<vvars, svars, gvars, xvars, suiterun, geomrun>>

\* materialize_session_state: state_file.write_text, and the operation returns
materialize_write(p) ==
    /\ orch.pc = "running"
    /\ orch.proc[p].pc = "write"
    /\ orch' = [orch EXCEPT
          !.state_dir[orch.proc[p].op.session_id] = orch.proc[p].state,
          !.proc[p] = IdleProc]
    /\ UNCHANGED <<vvars, svars, gvars, xvars, suiterun, geomrun>>

YIdle == SuiteIdle /\ GeomIdle /\ OrchIdle

\* the later gates and the pure functions, not started
XIdle == KinIdle /\ AngIdle /\ ManIdle /\ ResIdle /\ LockIdle

VerifyIdle ==
    /\ SigIdle
    /\ XIdle
    /\ YIdle
    /\ vpc = "idle"
    /\ vfiles = [n \in MeshNames |-> "absent"]
    /\ vlocked = FALSE
    /\ vreport = NoReport
    /\ vwrote = FALSE
    /\ vexit = Running

SweepNext ==
    \/ \E r \in DOMAIN run : main_start(r)
    \/ \E r \in DOMAIN run : main_command_suite(r)
    \/ \E r \in DOMAIN run : sweep_begin(r)
    \/ \E r \in DOMAIN run : cached_openscad_export_check(r)
    \/ \E r \in DOMAIN run : export_write(r)
    \/ \E r \in DOMAIN run : export_finish(r)
    \/ \E r \in DOMAIN run : export_fail(r)
    \/ \E r \in DOMAIN run : sweep_preset(r)
    \/ \E r \in DOMAIN run : sweep_perturbation(r)
    \/ \E r \in DOMAIN run : run_reference_fit_command(r)
    \/ \E r \in DOMAIN run : run_reference_fit_command_preset(r)
    \/ \E r \in DOMAIN run : sweep_finish(r)
    \/ \E r \in DOMAIN run : main_finish(r)
    \/ \E r \in DOMAIN run : next_run(r)

\* one validate_full process, run again and again on the same project
SweepSpecInit == VerifyIdle /\ SweepInit({1})
SpecSweep == SweepSpecInit /\ [][SweepNext]_vars

SweepIdle ==
    /\ profile = [np |-> 1, nq |-> 0]
    /\ config = 1
    /\ cache = [k \in CacheKeys |-> AbsentFile]
    /\ reports = [k \in HullKeys |-> NoReport]
    /\ wcount = [k \in CacheKeys |-> 0]
    /\ deviations = 0
    /\ run = [r \in {} |-> 0]

VerifyInit ==
    /\ vpc = "start"
    /\ vfiles \in [MeshNames -> {"absent", "mesh"}]
    /\ vlocked = FALSE
    /\ vreport = NoReport
    /\ vwrote = FALSE
    /\ vexit = Running
    /\ SweepIdle
    /\ SigIdle
    /\ XIdle
    /\ YIdle

VerifyNext ==
    \/ verify_main_dependency
    \/ verify_main_constants
    \/ verify_main_geometry
    \/ verify_main_analyze

\* one verify_reference_fit process
SpecFit == VerifyInit /\ [][VerifyNext]_vars

\* two validate_full processes at once on the same project, one run each
ConcNext ==
    \/ \E r \in DOMAIN run : main_start(r)
    \/ \E r \in DOMAIN run : main_command_suite(r)
    \/ \E r \in DOMAIN run : sweep_begin(r)
    \/ \E r \in DOMAIN run : cached_openscad_export_check(r)
    \/ \E r \in DOMAIN run : export_write(r)
    \/ \E r \in DOMAIN run : export_finish(r)
    \/ \E r \in DOMAIN run : export_fail(r)
    \/ \E r \in DOMAIN run : sweep_preset(r)
    \/ \E r \in DOMAIN run : sweep_perturbation(r)
    \/ \E r \in DOMAIN run : run_reference_fit_command(r)
    \/ \E r \in DOMAIN run : run_reference_fit_command_preset(r)
    \/ \E r \in DOMAIN run : sweep_finish(r)
    \/ \E r \in DOMAIN run : main_finish(r)

ConcInit ==
    /\ VerifyIdle
    /\ SweepInit({1, 2})
    /\ profile = [np |-> 1, nq |-> MaxPerturbations]
SpecConc == ConcInit /\ [][ConcNext]_vars

\* either command entry point
MainInit == VerifyInit \/ SweepSpecInit
MainNext == VerifyNext \/ SweepNext
SpecMain == MainInit /\ [][MainNext]_vars

\* the signature gate, run after run on the same signature file
SigInit ==
    /\ vpc = "idle"
    /\ vfiles = [n \in MeshNames |-> "absent"]
    /\ vlocked = FALSE
    /\ vreport = NoReport
    /\ vwrote = FALSE
    /\ vexit = Running
    /\ SweepIdle
    /\ sigfile \in {NoSignatureFile, HandEditedSignatureFile, PartialSignatureFile,
                    write_signature_baseline([p \in SigPresets |-> <<NominalSignature>>])}
    /\ sigrun = [pc |-> "idle"]
    /\ XIdle
    /\ YIdle

SigNext ==
    \/ signature_gate
    \/ signature_next_run

SpecSig == SigInit /\ [][SigNext]_vars

\* one call of the kinematic validator
KinInit ==
    /\ VerifyIdle
    /\ SweepIdle

KinNext ==
    \/ kinematic_gate

SpecKin == KinInit /\ [][KinNext]_vars

\* two sampler calls, as made by two runs with arguments a and b
AngInit ==
    /\ vpc = "idle"
    /\ vfiles = [n \in MeshNames |-> "absent"]
    /\ vlocked = FALSE
    /\ vreport = NoReport
    /\ vwrote = FALSE
    /\ vexit = Running
    /\ SweepIdle
    /\ SigIdle
    /\ YIdle
    /\ KinIdle
    /\ ManIdle
    /\ ResIdle
    /\ LockIdle
    /\ angrun \in [pc : {"start"}, a : AngleArgs, b : AngleArgs]

AngNext ==
    \/ sample_angles

SpecAngles == AngInit /\ [][AngNext]_vars

\* one call of the manufacturability prober
ManInit ==
    /\ VerifyIdle
    /\ SweepIdle

ManNext ==
    \/ manufacturability_gate

SpecMan == ManInit /\ [][ManNext]_vars

\* one call of the constant resolver on a reference file
ResInit ==
    /\ vpc = "idle"
    /\ vfiles = [n \in MeshNames |-> "absent"]
    /\ vlocked = FALSE
    /\ vreport = NoReport
    /\ vwrote = FALSE
    /\ vexit = Running
    /\ SweepIdle
    /\ SigIdle
    /\ YIdle
    /\ KinIdle
    /\ AngIdle
    /\ ManIdle
    /\ LockIdle
    /\ \E declared \in DeclaredSets :
          \E expressions \in [declared -> Expressions], order \in Orders(declared) :
             resrun = ResolverStart(expressions, order)

ResNext ==
    \/ resolve_pass
    \/ resolve_return

\* the resolver runs on: nothing stops it between two passes
SpecResolve == ResInit /\ [][ResNext]_vars /\ WF_vars(ResNext)

\* the constant lock on a resolved map, and the analysis that follows it
LockInit ==
    /\ vpc = "idle"
    /\ vfiles = [n \in MeshNames |-> "absent"]
    /\ vlocked = FALSE
    /\ vreport = NoReport
    /\ vwrote = FALSE
    /\ vexit = Running
    /\ SweepIdle
    /\ SigIdle
    /\ YIdle
    /\ KinIdle
    /\ AngIdle
    /\ ManIdle
    /\ ResIdle
    /\ lockrun \in [pc : {"start"}, constants : ResolvedConstants]

LockNext ==
    \/ lock_evaluate
    \/ lock_analyze

SpecLock == LockInit /\ [][LockNext]_vars

SuiteInit ==
    /\ VerifyIdle
    /\ SweepIdle

SuiteNext ==
    \/ suite_resolve
    \/ suite_run_command
    \/ suite_finish

SpecSuite == SuiteInit /\ [][SuiteNext]_vars

GeomInit ==
    /\ VerifyIdle
    /\ SweepIdle

GeomNext ==
    \/ ensure_geometry_inputs_begin
    \/ ensure_geometry_inputs_export

SpecGeometry == GeomInit /\ [][GeomNext]_vars

OrchInit ==
    /\ vpc = "idle"
    /\ vfiles = [n \in MeshNames |-> "absent"]
    /\ vlocked = FALSE
    /\ vreport = NoReport
    /\ vwrote = FALSE
    /\ vexit = Running
    /\ SweepIdle
    /\ SigIdle
    /\ XIdle
    /\ SuiteIdle
    /\ GeomIdle
    /\ orch = OrchStart

OrchNext ==
    \/ \E p \in OrchProcs : record_begin(p)
    \/ \E p \in OrchProcs : file_lock_acquire(p)
    \/ \E p \in OrchProcs : next_sequence_read(p)
    \/ \E p \in OrchProcs : next_sequence_write(p)
    \/ \E p \in OrchProcs : append_event(p)
    \/ \E p \in OrchProcs : file_lock_release(p)
    \/ \E p \in OrchProcs : materialize_replay(p)
    \/ \E p \in OrchProcs : materialize_write(p)

SpecRuntime == OrchInit /\ [][OrchNext]_vars

(***************************************************************************)
(* Claims                                                                  *)
(***************************************************************************)

\* C1: the fit report's overall pass is true if and only if all seven gates
\* are true, where slot_axis_positions and slot_insertion_corridor cover all
\* four slot checks and frame_interference and frame_floor_clearance cover
\* both placements; one false gate is enough for pass = false.
C1_PassIffAllSevenGates ==
    vreport.present =>
        /\ DOMAIN vreport.gates = GateNames
        /\ Cardinality(GateNames) = 7
        /\ vreport.pass <=> (\A g \in GateNames : vreport.gates[g])
        /\ vreport.gates.slot_axis_positions
              <=> (\A i \in 1..4 : vreport.slot_checks[i].axis_pass)
        /\ vreport.gates.slot_insertion_corridor
              <=> (\A i \in 1..4 : vreport.slot_checks[i].corridor_pass)
        /\ vreport.gates.frame_interference
              <=> (\A i \in 1..2 : vreport.frame_checks[i].interference_pass)
        /\ vreport.gates.frame_floor_clearance
              <=> (\A i \in 1..2 : vreport.frame_checks[i].floor_clearance_pass)

\* C1 witness: a written report in which slot_depth is the only false gate
\* and the overall pass is false.
C1_Witness ==
    /\ vreport.present
    /\ ~vreport.gates.slot_depth
    /\ \A g \in GateNames \ {"slot_depth"} : vreport.gates[g]
    /\ ~vreport.pass


\* the scenarios, fit runs and export records of process r's current run
ScenariosOf(r) == {run[r].scenarios[i] : i \in 1..Len(run[r].scenarios)}
FitsOf(r) == {run[r].fits[i] : i \in 1..Len(run[r].fits)}
ExportsOf(r) == {run[r].exports[i] : i \in 1..Len(run[r].exports)}
VerifyCommands == {"verify_reference_fit:explicit_stls", "verify_reference_fit:preset"}

\* C2: each entry point exits 0 if and only if it wrote a report whose overall
\* pass is true; a run that wrote a failing report, or ended without writing
\* one, exits non-zero.
C2_ExitZeroIffPassingReport ==
    /\ vpc = "done" => (vexit = 0 <=> (vwrote /\ vreport.present /\ vreport.pass))
    /\ \A r \in DOMAIN run :
          run[r].pc = "done" => (run[r].exit = 0 <=> (run[r].wrote /\ run[r].full_pass))

C2_Witness ==
    \E r \in DOMAIN run :
        /\ run[r].pc = "done"
        /\ run[r].wrote
        /\ ~run[r].full_pass
        /\ run[r].exit = 1

\* C3: a sweep scenario whose verify command failed without writing its
\* report (non-zero exit, crash, timeout) is never recorded with
\* required_gate_pass = true, whatever report an earlier run left at its path.
C3_FailedCommandNeverPasses ==
    \A r \in DOMAIN run : \A sc \in ScenariosOf(r) :
        ( /\ sc.command.name \in VerifyCommands
          /\ ~sc.command.pass
          /\ sc.report_by # <<r, run[r].nrun>> )
        => ~sc.required_gate_pass

\* C4: the sweep's pass is true if and only if at least one scenario was
\* recorded, every recorded scenario has corridor, interference and floor
\* clearance true in its gates, and the errors list is empty; a skipped
\* perturbation or a failed hull export makes the sweep fail.
C4_SweepPassIff ==
    \A r \in DOMAIN run :
        run[r].pc = "gates" =>
            /\ run[r].sweep_pass <=>
                  ( /\ ScenariosOf(r) # {}
                    /\ \A sc \in ScenariosOf(r) :
                          /\ gate_get(sc.gates, "slot_insertion_corridor")
                          /\ gate_get(sc.gates, "frame_interference")
                          /\ gate_get(sc.gates, "frame_floor_clearance")
                    /\ run[r].errors = <<>> )
            /\ (\E sc \in ScenariosOf(r) :
                   \/ sc.command.name = "sweep_perturbation_skipped"
                   \/ sc.command.name = "openscad_export" /\ ~sc.command.pass)
               => ~run[r].sweep_pass

C4_Witness ==
    \E r \in DOMAIN run :
        /\ run[r].pc = "gates"
        /\ ~run[r].sweep_pass
        /\ \E sc \in ScenariosOf(r) :
              sc.command.name = "openscad_export" /\ ~sc.command.pass
        /\ \E sc \in ScenariosOf(r) : sc.required_gate_pass

C6_CacheWrittenOnceReadAfter ==
    /\ \A k \in CacheKeys : wcount[k] <= 1
    /\ \A r \in DOMAIN run :
          /\ \A e \in ExportsOf(r) : e.cache_hit => e.state # "writing"
          /\ \A f \in FitsOf(r) : f.hull_state # "writing"

\* C7: a cached hull mesh that a scenario's fit run reuses was generated from
\* the generation inputs the scenario requests now.
C7_ReusedMeshMatchesInputs ==
    \A r \in DOMAIN run : \A f \in FitsOf(r) :
        f.mode = "explicit_stls" => f.hull_gen = f.want_gen

\* C8: an export whose renderer exited non-zero, left no output or left a
\* zero-byte output is never reported as passed, and a later cached export on
\* the same path does not report such a leftover as a passing cache hit:
\* every export record with pass = true stands for a complete mesh.
C8_PassedExportIsCompleteMesh ==
    \A r \in DOMAIN run : \A e \in ExportsOf(r) :
        e.pass => e.state \in {"mesh", "writing"}


\* the observation is outside a stored band of the signature file loaded
SignatureDrifting(observed, expected) ==
    /\ expected.valid
    /\ \E p \in SigPresets \cap DOMAIN expected.presets :
          /\ observed[p] # <<>>
          /\ \E m \in MetricNames \cap DOMAIN expected.presets[p] :
                /\ expected.presets[p][m].ok
                /\ \/ observed[p][1][m] < expected.presets[p][m].min
                   \/ observed[p][1][m] > expected.presets[p][m].max

OverrideSet(call) == call.cli \/ call.env \in {"1", "true", "yes", "on"}

\* C9: for an observation that drifts from the stored bands the gate returns
\* pass = true, raw_pass = false, override_used = true when the override is
\* set (flag or environment variable) and pass = false, raw_pass = false when
\* it is cleared; raw_pass is the same whatever the override.
C9_OverridePolicyOnDrift ==
    (sigrun.pc = "done" /\ SignatureDrifting(sigrun.observed, sigrun.expected)) =>
        /\ OverrideSet(sigrun) =>
              /\ sigrun.result.pass
              /\ ~sigrun.result.raw_pass
              /\ sigrun.result.override_used
        /\ ~OverrideSet(sigrun) =>
              /\ ~sigrun.result.pass
              /\ ~sigrun.result.raw_pass
        /\ \A cli \in BOOLEAN, env \in EnvValues :
              golden_signature_validation(cli, env, sigrun.observed,
                                          sigrun.expected).raw_pass
                 = sigrun.result.raw_pass

C9_Witness ==
    /\ sigrun.pc = "done"
    /\ SignatureDrifting(sigrun.observed, sigrun.expected)
    /\ ~sigrun.cli
    /\ sigrun.env = "1"
    /\ sigrun.result.pass
    /\ sigrun.result.override_source = "env"

\* C10: every result of the signature gate, the one for a missing or invalid
\* signature file included, has raw_pass, override_used and override_source
\* as fields of their own, and override_used is true exactly when the
\* override is enabled and raw_pass is false.
C10_OverrideFieldsAlwaysReported ==
    sigrun.pc = "done" =>
        /\ {"raw_pass", "override_used", "override_source"} \subseteq DOMAIN sigrun.result
        /\ sigrun.result.override_used <=> (OverrideSet(sigrun) /\ ~sigrun.result.raw_pass)

\* the (preset, metric) pairs of a finished gate run that have a stored band
\* with numeric edges and an observed value
BandedPairs ==
    IF sigrun.pc = "done" /\ sigrun.expected.valid
    THEN {pm \in SigPresets \X MetricNames :
            /\ pm[1] \notin signature_missing_presets(sigrun.observed, sigrun.expected)
            /\ pm[2] \in DOMAIN sigrun.expected.presets[pm[1]]
            /\ sigrun.expected.presets[pm[1]][pm[2]].ok}
    ELSE {}

DriftEntriesOf(pm) ==
    {d \in sigrun.result.drifts : d.preset = pm[1] /\ d.metric = pm[2]}

\* C11: for a stored band [min, max], a value with min <= value <= max gives
\* no drift entry; a value below min or above max gives exactly one entry,
\* of status out_of_band, whose delta_to_nearest_band_edge is value - min
\* (negative) below the band and value - max (positive) above it.
C11_BandComparison ==
    \A pm \in BandedPairs :
        LET value == sigrun.observed[pm[1]][1][pm[2]]
            bounds == sigrun.expected.presets[pm[1]][pm[2]]
            entries == DriftEntriesOf(pm)
        IN /\ (bounds.min <= value /\ value <= bounds.max) => entries = {}
           /\ value < bounds.min =>
                 /\ Cardinality(entries) = 1
                 /\ \A d \in entries :
                       /\ d.status = "out_of_band"
                       /\ d.delta_to_nearest_band_edge = value - bounds.min
                       /\ d.delta_to_nearest_band_edge < 0
           /\ value > bounds.max =>
                 /\ Cardinality(entries) = 1
                 /\ \A d \in entries :
                       /\ d.status = "out_of_band"
                       /\ d.delta_to_nearest_band_edge = value - bounds.max
                       /\ d.delta_to_nearest_band_edge > 0

\* a run that sees, against non-degenerate bands, a value below a band, a
\* value above a band and a value on a band edge
C11_Witness ==
    /\ \E pm \in BandedPairs :
          /\ sigrun.observed[pm[1]][1][pm[2]] < sigrun.expected.presets[pm[1]][pm[2]].min
          /\ sigrun.expected.presets[pm[1]][pm[2]].min < sigrun.expected.presets[pm[1]][pm[2]].max
    /\ \E pm \in BandedPairs :
          /\ sigrun.observed[pm[1]][1][pm[2]] > sigrun.expected.presets[pm[1]][pm[2]].max
          /\ sigrun.expected.presets[pm[1]][pm[2]].min < sigrun.expected.presets[pm[1]][pm[2]].max
    /\ \E pm \in BandedPairs :
          /\ sigrun.observed[pm[1]][1][pm[2]] = sigrun.expected.presets[pm[1]][pm[2]].max
          /\ DriftEntriesOf(pm) = {}

\* the stored baseline of a finished gate run has no band for metric m of
\* preset p, which the run observed
LacksBand(p, m) ==
    /\ sigrun.pc = "done"
    /\ sigrun.expected.valid
    /\ sigrun.observed[p] # <<>>
    /\ p \in DOMAIN sigrun.expected.presets
    /\ m \notin DOMAIN sigrun.expected.presets[p]

\* C12: every sweep preset missing from the stored baseline is reported as a
\* missing preset and every observed metric with no stored band is reported
\* as a drift entry; raw_pass is true exactly when there are no drift
\* entries and no missing presets, so a stored baseline that lacks a metric
\* never yields raw_pass = TRUE.
C12_MissingBandsReported ==
    (sigrun.pc = "done" /\ sigrun.expected.valid) =>
        /\ \A p \in SigPresets \ DOMAIN sigrun.expected.presets :
              p \in sigrun.result.missing_presets
        /\ \A p \in SigPresets, m \in MetricNames :
              LacksBand(p, m) =>
                 \E d \in sigrun.result.drifts : d.preset = p /\ d.metric = m
        /\ sigrun.result.raw_pass <=>
              (sigrun.result.drifts = {} /\ sigrun.result.missing_presets = {})
        /\ (\E p \in SigPresets, m \in MetricNames : LacksBand(p, m)) =>
              ~sigrun.result.raw_pass

\* C13: a signature-gate run without write-baseline never creates or
\* modifies the stored signature file; the stored bands change only in a
\* run that requested write-baseline.
C13_BaselineWrittenOnlyOnRequest ==
    [][/\ (sigrun.pc = "idle" /\ sigrun'.pc = "done" /\ ~sigrun'.write) =>
              sigfile' = sigfile
       /\ sigfile' # sigfile =>
              (sigrun.pc = "idle" /\ sigrun'.pc = "done" /\ sigrun'.write)]_vars

\* a drifting run with the override set and without write-baseline has
\* finished, and the stored file is still the one it compared against
C13_Witness ==
    /\ sigrun.pc = "done"
    /\ ~sigrun.write
    /\ OverrideSet(sigrun)
    /\ sigrun.expected.valid
    /\ sigrun.result.drifts # {}
    /\ sigfile = sigrun.expected

\* the baseline report is absent, is not an object, lacks its inputs or a
\* mesh path, or lacks one of the five required scalars
ReportLacksRequired(report) ==
    \/ report.kind # "dict"
    \/ report.inputs.kind # "dict"
    \/ report.inputs.hull_stl = "absent"
    \/ report.inputs.frame_stl = "absent"
    \/ \E i \in DOMAIN ScalarNames : report.scalars[i] = "absent"

FailedClosed(result) ==
    /\ "exception" \notin DOMAIN result
    /\ result.pass = FALSE
    /\ result.error # ""
    /\ result.placements = <<>>

\* C14: the kinematic validator fails closed: when the baseline fit report
\* is absent, is not an object, lacks its inputs or mesh paths, or lacks any
\* required scalar, it returns pass = FALSE with an error message and no
\* placements, and raises no exception.
C14_KinematicFailsClosed ==
    (kinrun.pc = "done" /\ ReportLacksRequired(kinrun.report)) =>
        FailedClosed(kinrun.result)

\* a report with both meshes loadable whose last scalar, the minimum-gap
\* threshold, is missing has been handled
C14_Witness ==
    /\ kinrun.pc = "done"
    /\ kinrun.report.kind = "dict"
    /\ kinrun.report.inputs.kind = "dict"
    /\ kinrun.report.inputs.hull_stl = "mesh"
    /\ kinrun.report.inputs.frame_stl = "mesh"
    /\ kinrun.report.scalars[5] = "absent"
    /\ FailedClosed(kinrun.result)

\* the pass condition of one sampled pose, from the measurements reported
AnglePasses(angle_result) ==
    /\ angle_result.max_penetration_mm <= frame_penetration_max_mm
    /\ angle_result.min_gap_mm >= frame_min_gap_mm

\* C15: a placement passes exactly when every sampled angle passes (max
\* penetration <= tolerance and min gap >= minimum gap), and the overall
\* result passes exactly when both mirrored placements pass at every angle.
C15_PlacementPassIffEveryAngle ==
    (kinrun.pc = "done" /\ KinematicReportUsable(kinrun.report)) =>
        /\ DOMAIN kinrun.result.placements = XSigns
        /\ \A x \in XSigns :
              LET placement == kinrun.result.placements[x]
              IN /\ Len(placement.angles) = kinrun.result.sample_count
                 /\ \A i \in DOMAIN placement.angles :
                       placement.angles[i].pass <=> AnglePasses(placement.angles[i])
                 /\ placement.pass <=>
                       \A i \in DOMAIN placement.angles : AnglePasses(placement.angles[i])
        /\ kinrun.result.pass <=>
              \A x \in XSigns : kinrun.result.placements[x].pass

\* three angles sampled; one placement fails at its first angle only, the
\* mirrored placement passes everywhere, and the overall result fails
C15_Witness ==
    /\ kinrun.pc = "done"
    /\ KinematicReportUsable(kinrun.report)
    /\ kinrun.result.sample_count = 3
    /\ ~kinrun.result.placements[-1].angles[1].pass
    /\ kinrun.result.placements[-1].angles[2].pass
    /\ kinrun.result.placements[-1].angles[3].pass
    /\ ~kinrun.result.placements[-1].pass
    /\ kinrun.result.placements[1].pass
    /\ ~kinrun.result.pass

SeqRange(s) == {s[i] : i \in DOMAIN s}

\* C16: angle sampling is monotonic in coverage: when run B's range
\* contains run A's and B's step is not larger than A's, every angle
\* sampled under A is also sampled under B. Stated here for ordered ranges
\* and positive steps.
C16_SamplingMonotonic ==
    (/\ angrun.pc = "done"
     /\ angrun.a.min <= angrun.a.max
     /\ angrun.b.min <= angrun.a.min
     /\ angrun.a.max <= angrun.b.max
     /\ 0 < angrun.b.step
     /\ angrun.b.step <= angrun.a.step) =>
        SeqRange(angrun.angles_a) \subseteq SeqRange(angrun.angles_b)

\* the prober returned a result (no exception left the call)
ManReturned == manrun.pc = "done" /\ "exception" \notin DOMAIN manrun.result

\* the prober evaluated its gates
ManEvaluated == ManReturned /\ DOMAIN manrun.result.gates = ManGateNames

\* C17 as stated: the overall manufacturability pass is true exactly when
\* all individual gate booleans of the result are true.
C17_PassIffAllGateBooleans ==
    ManReturned =>
        (manrun.result.pass <=>
            \A g \in DOMAIN manrun.result.gates : manrun.result.gates[g])

\* C17, amended: a result either carries the five gate booleans, and then
\* pass is true exactly when all five are true (so it is false whenever the
\* declared minimum wall, the sampled local thickness, the overhang risk or
\* the contact footprint check fails, even if the others pass), or it is an
\* error result with no gate booleans and pass = FALSE.
C17_PassIffAllGatesWhenEvaluated ==
    ManReturned =>
        IF ManEvaluated
        THEN /\ manrun.result.pass <=>
                   \A g \in ManGateNames : manrun.result.gates[g]
             /\ \A g \in {"minimum_wall_thickness", "sampled_local_wall_thickness",
                          "overhang_risk", "stable_contact_footprint"} :
                   ~manrun.result.gates[g] => ~manrun.result.pass
        ELSE /\ manrun.result.gates = <<>>
             /\ manrun.result.error # ""
             /\ ~manrun.result.pass

\* only the sampled local thickness gate fails, and the verdict is a fail
C17_Witness ==
    /\ ManEvaluated
    /\ ~manrun.result.gates["sampled_local_wall_thickness"]
    /\ \A g \in ManGateNames \ {"sampled_local_wall_thickness"} : manrun.result.gates[g]
    /\ ~manrun.result.pass

ProbesOf(result) == result.measurements.sampled_local_thickness_probes

RequiredValidProbes == Max2(1, wall_thickness_probe_min_valid)

\* both provider methods were tried and neither gave the required number
\* of valid probes
TooFewValidProbes ==
    /\ ManEvaluated
    /\ manrun.thickness.available
    /\ Len(valid_values(manrun.thickness.ray)) < RequiredValidProbes
    /\ Len(valid_values(manrun.thickness.max_sphere)) < RequiredValidProbes

\* C18: the sampled local wall-thickness gate is true only when the probe
\* status is ok (the valid probes of the chosen method number at least the
\* required minimum) and the reported percentile is at least the minimum
\* wall thickness; when fewer valid probes than the minimum remain after
\* trying ray and then max_sphere, the status is insufficient or failed and
\* the gate is false.
C18_SampledGateNeedsEnoughProbes ==
    ManEvaluated =>
        /\ manrun.result.gates["sampled_local_wall_thickness"] =>
              /\ ProbesOf(manrun.result).status = "ok"
              /\ ProbesOf(manrun.result).valid_probe_count >= RequiredValidProbes
              /\ ProbesOf(manrun.result).valid_probe_count =
                    Len(valid_values(manrun.thickness[ProbesOf(manrun.result).method_used]))
              /\ ProbesOf(manrun.result).percentile_mm >= min_wall_thickness_mm * 100
        /\ TooFewValidProbes =>
              /\ ProbesOf(manrun.result).status \in
                    {"insufficient_valid_probes", "probe_failed"}
              /\ [i \in 1..2 |-> ProbesOf(manrun.result).method_attempts[i].method]
                    = <<"ray", "max_sphere">>
              /\ ~manrun.result.gates["sampled_local_wall_thickness"]
              /\ ~manrun.result.pass

\* ray gave one valid probe, max_sphere one valid probe as well, the single
\* value kept is above the minimum wall thickness, and the gate is false
C18_Witness ==
    /\ TooFewValidProbes
    /\ Len(valid_values(manrun.thickness.ray)) = 1
    /\ Len(valid_values(manrun.thickness.max_sphere)) = 1
    /\ ProbesOf(manrun.result).status = "insufficient_valid_probes"
    /\ ProbesOf(manrun.result).percentile_mm >= min_wall_thickness_mm * 100
    /\ ~manrun.result.gates["sampled_local_wall_thickness"]

ResEnded == resrun.pc \in {"returned", "raised"}

DeclaredNames == DOMAIN resrun.expressions

\* the names an expression refers to
ReferencedNames(expr) == IF expr.op = "num" THEN {} ELSE {expr.id}

\* the declared names that have a value once nothing more can be
\* substituted, whatever the order: the least set closed under "all the
\* names my expression refers to are in the set"
RECURSIVE ResolvableFrom(_)
ResolvableFrom(known) ==
    LET more == {n \in DeclaredNames :
                   ReferencedNames(resrun.expressions[n]) \subseteq known}
    IN IF more \subseteq known THEN known ELSE ResolvableFrom(known \cup more)

Unresolvable == DeclaredNames \ ResolvableFrom({})

\* what a resolver run ends with: the map returned, or the error raised
Outcome(st) == [pc |-> st.pc, result |-> st.result, error |-> st.error]

\* the same file with its declarations in every other order ends the same way
SameForEveryOrder ==
    \A order \in Orders(DeclaredNames) :
        Outcome(parse_reference_constants(ResolverStart(resrun.expressions, order)))
            = Outcome(resrun)

\* a returned map gives every declared name a value; an error returns no map
CompleteMapOrNone ==
    /\ resrun.pc = "returned" =>
          /\ Len(resrun.result) = 1
          /\ DOMAIN resrun.result[1] = DeclaredNames
          /\ \A n \in DeclaredNames : resrun.result[1][n] \in Int
    /\ resrun.pc = "raised" => resrun.result = <<>>

WithinEpsilon(observed, expected) ==
    ~observed.nan /\ Abs(observed.v - expected) <= lock_epsilon

\* C20: the constants-locked boolean is true if and only if every
\* canonical constant's resolved value differs from its canonical value by
\* at most 1e-6; the delta list has an entry for every canonical constant;
\* a constant outside that epsilon makes the reference_constants_locked
\* gate false and the overall fit report fail.
C20_LockedIffAllWithinEpsilon ==
    lockrun.pc = "done" =>
        /\ lockrun.lock.locked <=>
              \A name \in DOMAIN CANONICAL_REFERENCE_CONSTANTS :
                 WithinEpsilon(lockrun.constants[name],
                               CANONICAL_REFERENCE_CONSTANTS[name])
        /\ DOMAIN lockrun.lock.deltas = DOMAIN CANONICAL_REFERENCE_CONSTANTS
        /\ (\E name \in DOMAIN CANONICAL_REFERENCE_CONSTANTS :
               ~WithinEpsilon(lockrun.constants[name],
                              CANONICAL_REFERENCE_CONSTANTS[name])) =>
              /\ ~lockrun.report.gates["reference_constants_locked"]
              /\ ~lockrun.report.pass

\* C23: the frame_floor_clearance gate is true if and only if, for both
\* mirrored placements, a floor clearance was measured and the minimum
\* clearance over all contact points is at least floor_clearance_min_mm; a
\* placement without any measured clearance fails the gate, and a measured
\* minimum below the threshold makes the gate and the overall pass false.
FloorMeasured(check) == check.floor_clearance_samples_mm # <<>>
FloorMinimum(check) == SeqMin(check.floor_clearance_samples_mm)
C23_FloorClearanceGate ==
    vreport.present =>
        /\ vreport.gates.frame_floor_clearance
              <=> (\A i \in 1..2 :
                     /\ FloorMeasured(vreport.frame_checks[i])
                     /\ FloorMinimum(vreport.frame_checks[i])
                           >= floor_clearance_min_mm)
        /\ \A i \in 1..2 :
              /\ ~FloorMeasured(vreport.frame_checks[i])
                    => /\ vreport.frame_checks[i].floor_clearance_min_mm = <<>>
                       /\ ~vreport.gates.frame_floor_clearance
              /\ FloorMeasured(vreport.frame_checks[i])
                    => vreport.frame_checks[i].floor_clearance_min_mm
                          = <<FloorMinimum(vreport.frame_checks[i])>>
              /\ (/\ FloorMeasured(vreport.frame_checks[i])
                  /\ floor_clearance_min_mm
                        > FloorMinimum(vreport.frame_checks[i]))
                    => /\ ~vreport.gates.frame_floor_clearance
                       /\ ~vreport.pass

\* C23 witness: a written report in which one placement has a measured
\* clearance at the threshold, the other has none, every other gate is true
\* and the floor gate alone makes the overall pass false.
C23_Witness ==
    /\ vreport.present
    /\ \E i, j \in 1..2 :
          /\ FloorMeasured(vreport.frame_checks[i])
          /\ vreport.frame_checks[i].floor_clearance_pass
          /\ ~FloorMeasured(vreport.frame_checks[j])
    /\ \A g \in GateNames \ {"frame_floor_clearance"} : vreport.gates[g]
    /\ ~vreport.gates.frame_floor_clearance
    /\ ~vreport.pass

\* the sampled angles of a completed kinematic sweep, per placement
SweptAngles ==
    IF kinrun.pc = "done" /\ KinematicReportUsable(kinrun.report)
    THEN {<<x_sign, i>> : x_sign \in XSigns, i \in DOMAIN kinrun.signed[1]}
    ELSE {}
AnglePassed(xi) == kinrun.result.placements[xi[1]].angles[xi[2]].pass
SamplesAt(xi) == SeqRange(kinrun.signed[xi[1]][xi[2]])

PassBound(samples) ==
    /\ \A d \in SeqRange(samples) :
          /\ d <= frame_penetration_max_mm
          /\ d <= 0 => -d >= frame_min_gap_mm
    /\ \E d \in SeqRange(samples) : d <= 0
ObservedPresets == {p \in SigPresets : sigrun.observed[p] # <<>>}
C29_FreshBaselineHoldsObserved ==
    (sigrun.pc = "done" /\ sigrun.write) =>
        /\ sigfile.valid
        /\ DOMAIN sigfile.presets = ObservedPresets
        /\ \A p \in ObservedPresets :
              /\ DOMAIN sigfile.presets[p] = MetricNames
              /\ \A m \in MetricNames :
                    /\ sigfile.presets[p][m].ok
                    /\ sigfile.presets[p][m].min <= sigrun.observed[p][1][m]
                    /\ sigrun.observed[p][1][m] <= sigfile.presets[p][m].max
        /\ \A d \in sigrun.result.drifts : d.status # "out_of_band"
        /\ sigrun.result.raw_pass <=> ObservedPresets = SigPresets

\* C29 witness: a write-baseline run in which one preset is observed, with
\* a signature other than the nominal one, and another preset is not: no
\* drift is reported and raw_pass is false.
C29_Witness ==
    /\ sigrun.pc = "done"
    /\ sigrun.write
    /\ ObservedPresets # {}
    /\ ObservedPresets # SigPresets
    /\ \E p \in ObservedPresets : sigrun.observed[p][1] # NominalSignature
    /\ sigrun.result.drifts = {}
    /\ ~sigrun.result.raw_pass

\* the scenario names of a sweep over the profile, in declared order: for
\* each preset the baseline (0), then each perturbation
ExpectedScenarioNames ==
    [i \in 1..(profile.np * (1 + profile.nq)) |->
        <<((i - 1) \div (1 + profile.nq)) + 1, (i - 1) % (1 + profile.nq)>>]
IsPrefix(s, t) ==
    /\ Len(s) <= Len(t)
    /\ \A i \in 1..Len(s) : s[i] = t[i]
ScenarioNames(r) == [i \in DOMAIN run[r].scenarios |-> run[r].scenarios[i].name]
PresetFilesExist(r) ==
    \A i \in DOMAIN run[r].errors : run[r].errors[i] # "preset_missing"
\* robustness_sweep has returned its result to main()
SweepReturned(r) ==
    run[r].pc = "gates" \/ (run[r].pc = "done" /\ run[r].wrote)

EndedByExportTimeout(r) ==
    /\ run[r].pc = "done"
    /\ ~run[r].wrote
    /\ run[r].exit = PythonCrash

\* C22: every external process invocation is bounded by a timeout, and a
\* timed-out invocation always ends in an explicit infrastructure failure: a
\* record with pass = false marked as timed out, inside a report whose
\* enclosing gate is false, and a non-zero exit; it is never turned into a
\* pass and never recorded as a geometric gate result.
C22_TimeoutIsExplicitFailure ==
    \A r \in DOMAIN run :
        /\ ~EndedByExportTimeout(r)
        /\ \A sc \in ScenariosOf(r) :
              sc.command.timed_out =>
                  /\ ~sc.command.pass
                  /\ sc.command.returncode # 0
                  /\ ~sc.report_present
                  /\ sc.gates = EmptyGates
                  /\ ~sc.required_gate_pass
        /\ ( /\ run[r].pc = "done"
             /\ run[r].wrote
             /\ \E sc \in ScenariosOf(r) : sc.command.timed_out )
              => ~run[r].sweep_pass /\ ~run[r].full_pass /\ run[r].exit # 0

\* the configuration errors of a validate_full call, read off its arguments
\* and the sweep config file
NonNumericOverrides(entry) ==
    \/ entry.overrides.kind # "dict"
    \/ entry.overrides.values = <<>>
    \/ \E i \in DOMAIN entry.overrides.values : entry.overrides.values[i] = "str"
EmptyPerturbationList(cfg) ==
    cfg.perturbations.kind = "list" /\ cfg.perturbations.items = <<>>
ConfigurationErrorButEmptyPerturbations(args) ==
    LET cfg == args.sweep_config
    IN \/ args.threshold = "loose"
       \/ cfg.json # "dict"
       \/ cfg.profiles # "dict"
       \/ cfg.profile # "dict"
       \/ cfg.presets.kind # "list"
       \/ cfg.presets.items = <<>>
       \/ \E i \in DOMAIN cfg.presets.items :
             cfg.presets.items[i] \notin PresetFiles \cup {" gcsc_default "}
       \/ \E i \in DOMAIN cfg.perturbations.items :
             NonNumericOverrides(cfg.perturbations.items[i])
ConfigurationError(args) ==
    \/ ConfigurationErrorButEmptyPerturbations(args)
    \/ EmptyPerturbationList(args.sweep_config)

\* C21: a configuration error (sweep config missing or unparseable, profile
\* missing, empty preset list, empty perturbation list, perturbation with
\* empty or non-numeric overrides, invalid threshold value, preset file
\* absent) is rejected before any subcommand, mesh export or geometry query
\* is started: validate_full exits with its configuration-error status
\* without having invoked the renderer or the fit analyzer.
C21_ConfigurationErrorRejectedFirst ==
    (suiterun.pc # "idle" /\ ConfigurationError(suiterun.args)) =>
        /\ suiterun.started = <<>>
        /\ suiterun.pc = "done"
        /\ suiterun.exit = SweepProfileErrorStatus
        /\ ~suiterun.wrote

\* the commands of the suite started so far, in the order they were started
SuiteCommandNames ==
    {suiterun.command_specs[i].name : i \in DOMAIN suiterun.command_specs}
StartedCommands ==
    SelectSeq(suiterun.started, LAMBDA name : name \in SuiteCommandNames)
SuiteCutShort ==
    Len(suiterun.command_results) < Len(suiterun.command_specs)

\* C30: with fail-fast in effect (the default) no command of the suite is
\* started after the first command that fails or times out; in every mode
\* the command_suite gate is true if and only if every command of the suite
\* was run and returned status 0; and a suite cut short by fail-fast always
\* yields command_suite = false and overall pass = false.
C30_CommandSuiteGate ==
    suiterun.pc \in {"suite", "gates", "done"} =>
        /\ Len(StartedCommands) = Len(suiterun.command_results)
        /\ \A i \in DOMAIN StartedCommands :
              /\ StartedCommands[i] = suiterun.command_specs[i].name
              /\ suiterun.command_results[i].name = StartedCommands[i]
        /\ ~suiterun.args.no_subcommand_fail_fast =>
              \A i \in DOMAIN StartedCommands :
                  i < Len(StartedCommands) =>
                      /\ suiterun.command_results[i].returncode = 0
                      /\ ~suiterun.command_results[i].timed_out
        /\ (suiterun.pc = "gates" /\ SuiteCutShort) =>
              /\ ~suiterun.args.no_subcommand_fail_fast
              /\ ~suiterun.command_results[Len(suiterun.command_results)].pass
        /\ (suiterun.pc = "done" /\ suiterun.wrote) =>
              /\ suiterun.gates.command_suite <=>
                    /\ Len(suiterun.command_results) = Len(suiterun.command_specs)
                    /\ \A i \in DOMAIN suiterun.command_results :
                          /\ suiterun.command_results[i].returncode = 0
                          /\ ~suiterun.command_results[i].timed_out
              /\ SuiteCutShort =>
                    /\ ~suiterun.gates.command_suite
                    /\ ~suiterun.pass
                    /\ suiterun.exit # 0

\* C30 witness: a full-mode run with fail-fast in which the second command
\* times out: the remaining three commands are never started, and although
\* every other gate is true the report fails.
C30_Witness ==
    /\ suiterun.pc = "done"
    /\ suiterun.wrote
    /\ ~suiterun.args.no_subcommand_fail_fast
    /\ ~suiterun.args.quick
    /\ Len(suiterun.command_results) = 2
    /\ suiterun.command_results[2].timed_out
    /\ \A g \in FullGateNames \ {"command_suite"} : suiterun.gates[g]
    /\ ~suiterun.gates.command_suite
    /\ ~suiterun.pass
    /\ suiterun.exit = 1

\* C28: verify_reference_fit only reads the mesh files a caller supplies
\* with --hull-stl, --frame-stl or --slot-plug-stl: for every combination of
\* these options (one, two or all three) and of --reuse-exported-stls, no
\* export is ever written to a path the caller supplied.
C28_SuppliedMeshesOnlyRead ==
    geomrun.pc # "idle" =>
        \A i \in DOMAIN geomrun.exported :
            geomrun.exported[i] \notin geomrun.args.supplied

AllReturned == \A p \in OrchProcs : orch.proc[p].pc = "idle"
SessionsWithEvents ==
    {orch.events_file[i].session_id : i \in DOMAIN orch.events_file}

\* C26: after any set of record operations on a session, possibly
\* concurrent, has completed, the session's materialized state file equals
\* the replay of all that session's events in the log; no completed event is
\* missing from the state on disk.
C26_StateFileIsReplay ==
    (orch.pc = "running" /\ AllReturned) =>
        \A session_id \in SessionsWithEvents :
            orch.state_dir[session_id]
                = replay_session(orch.events_file, session_id)

====
